---- MODULE Spec2Model ----
(***************************************************************************)
(* RestrictedPython: the RestrictingNodeTransformer of                     *)
(* src/RestrictedPython/transformer.py, as a state machine.                *)
(*                                                                         *)
(* A syntax-tree node is a record: "kind" is the node's class name, the    *)
(* other fields are the class's _fields and, for the classes that carry    *)
(* them, lineno and col_offset.  Python's None is the record PyNone in a   *)
(* child position and the string NoneId in an identifier position.  An     *)
(* attribute that ast.NodeTransformer deleted from its node is a field the *)
(* record no longer has; reading it raises AttributeError.                 *)
(*                                                                         *)
(* The transformer's own state (errors, warnings, used_names, _tmp_idx,    *)
(* print_info) is threaded through the visit as the record st; st.exc      *)
(* names the exception that is propagating ("" when none is).              *)
(***************************************************************************)
EXTENDS Integers, Sequences, FiniteSets, TLC

VARIABLES
    dialect,      \* the interpreter vintage the module was imported under
    pc,           \* "ready": transformer constructed; "done": visit returned
    tree,         \* the input tree handed to visit
    result,       \* what visit returned: <<>> (None), <<n>> or a list of nodes
    errors,       \* RestrictingNodeTransformer.errors
    warnings,     \* RestrictingNodeTransformer.warnings
    used_names,   \* RestrictingNodeTransformer.used_names (its keys)
    tmp_idx,      \* RestrictingNodeTransformer._tmp_idx
    print_info,   \* RestrictingNodeTransformer.print_info
    exc           \* the exception visit ended with, "" when it returned

vars == <<dialect, pc, tree, result, errors, warnings, used_names, tmp_idx,
          print_info, exc>>

-----------------------------------------------------------------------------
(* The dialect flags of ._compat.                                          *)

Dialects == {"modern3_4", "modern3_5plus"}

IS_PY2 == dialect = "legacy2"
IS_PY3 == dialect \in {"modern3_4", "modern3_5plus"}
IS_PY34_OR_GREATER == dialect \in {"modern3_4", "modern3_5plus"}
IS_PY35_OR_GREATER == dialect = "modern3_5plus"

-----------------------------------------------------------------------------
(* Python's None, and attribute access on a node.  getattr of an attribute *)
(* the node does not have raises AttributeError; hasattr is Has.           *)

PyNone == [kind |-> "NoneType"]
NoneId == "<None>"

Has(node, f) == f \in DOMAIN node
DelAttr(node, f) == [g \in DOMAIN node \ {f} |-> node[g]]
SetAttr(node, f, v) ==
    [g \in DOMAIN node \cup {f} |-> IF g = f THEN v ELSE node[g]]

-----------------------------------------------------------------------------
(* Strings: str.startswith and str.endswith.                               *)

StartsWith(s, p) == Len(s) >= Len(p) /\ SubSeq(s, 1, Len(p)) = p
EndsWith(s, p) ==
    Len(s) >= Len(p) /\ SubSeq(s, Len(s) - Len(p) + 1, Len(s)) = p

-----------------------------------------------------------------------------
(* The grammar: each class's _fields in order, which of them hold a list   *)
(* of nodes, which a single node, and which classes carry lineno and       *)
(* col_offset (_attributes).                                               *)

FieldNames(kind) ==
    CASE kind = "Module" -> <<"body">>
      [] kind = "Expr" -> <<"value">>
      [] kind = "Name" -> <<"id", "ctx">>
      [] kind = "Num" -> <<"n">>
      [] kind = "Str" -> <<"s">>
      [] kind = "NameConstant" -> <<"value">>
      [] kind = "Attribute" -> <<"value", "attr", "ctx">>
      [] kind = "Subscript" -> <<"value", "slice", "ctx">>
      [] kind = "Index" -> <<"value">>
      [] kind = "Slice" -> <<"lower", "upper", "step">>
      [] kind = "ExtSlice" -> <<"dims">>
      [] kind = "Starred" -> <<"value", "ctx">>
      [] kind \in {"Tuple", "List"} -> <<"elts", "ctx">>
      [] kind = "Dict" -> <<"keys", "values">>
      [] kind = "BinOp" -> <<"left", "op", "right">>
      [] kind = "Call" ->
            IF IS_PY35_OR_GREATER
            THEN <<"func", "args", "keywords">>
            ELSE <<"func", "args", "keywords", "starargs", "kwargs">>
      [] kind = "keyword" -> <<"arg", "value">>
      [] kind = "Lambda" -> <<"args", "body">>
      [] kind \in {"ListComp", "SetComp", "GeneratorExp"} ->
            <<"elt", "generators">>
      [] kind = "DictComp" -> <<"key", "value", "generators">>
      [] kind = "comprehension" -> <<"target", "iter", "ifs">>
      [] kind \in {"Yield", "YieldFrom", "Await", "Return"} -> <<"value">>
      [] kind = "JoinedStr" -> <<"values">>
      [] kind = "Assign" -> <<"targets", "value">>
      [] kind = "AugAssign" -> <<"target", "op", "value">>
      [] kind = "AnnAssign" -> <<"target", "annotation", "value", "simple">>
      [] kind = "Delete" -> <<"targets">>
      [] kind \in {"For", "AsyncFor"} ->
            <<"target", "iter", "body", "orelse">>
      [] kind \in {"With", "AsyncWith"} -> <<"items", "body">>
      [] kind = "withitem" -> <<"context_expr", "optional_vars">>
      [] kind = "Try" -> <<"body", "handlers", "orelse", "finalbody">>
      [] kind = "ExceptHandler" -> <<"type", "name", "body">>
      [] kind = "Import" -> <<"names">>
      [] kind = "ImportFrom" -> <<"module", "names", "level">>
      [] kind = "alias" -> <<"name", "asname">>
      [] kind \in {"FunctionDef", "AsyncFunctionDef"} ->
            <<"name", "args", "body", "decorator_list", "returns">>
      [] kind = "arguments" ->
            <<"args", "vararg", "kwonlyargs", "kw_defaults", "kwarg",
              "defaults">>
      [] kind = "arg" -> <<"arg", "annotation">>
      [] kind = "ClassDef" ->
            IF IS_PY35_OR_GREATER
            THEN <<"name", "bases", "keywords", "body", "decorator_list">>
            ELSE <<"name", "bases", "keywords", "starargs", "kwargs",
                   "body", "decorator_list">>
      [] kind \in {"Nonlocal", "Global"} -> <<"names">>
      [] OTHER -> <<>>

ListFieldNames ==
    {"body", "orelse", "finalbody", "handlers", "targets", "elts", "keys",
     "values", "generators", "ifs", "args", "keywords", "bases",
     "decorator_list", "names", "items", "dims", "kwonlyargs",
     "kw_defaults", "defaults"}

ScalarFieldNames ==
    {"kind", "lineno", "col_offset", "id", "attr", "name", "asname",
     "module", "level", "n", "s", "arg", "simple"}

IsListField(kind, f) ==
    /\ f \in ListFieldNames
    /\ ~(f = "body" /\ kind = "Lambda")
    /\ ~(f = "args" /\ kind \in {"FunctionDef", "AsyncFunctionDef", "Lambda"})
    /\ ~(f = "names" /\ kind \in {"Nonlocal", "Global"})

IsChildField(kind, f) ==
    /\ ~IsListField(kind, f)
    /\ f \notin ScalarFieldNames
    /\ ~(f = "value" /\ kind = "NameConstant")
    /\ ~(f = "names" /\ kind \in {"Nonlocal", "Global"})

LocKinds ==
    {"Expr", "Name", "Num", "Str", "NameConstant", "Ellipsis", "Attribute",
     "Subscript", "Starred", "Tuple", "List", "Dict", "BinOp", "Call",
     "Lambda", "ListComp", "SetComp", "GeneratorExp", "DictComp", "Yield",
     "YieldFrom", "Await", "JoinedStr", "Return", "Assign", "AugAssign",
     "AnnAssign", "Delete", "For", "AsyncFor", "With", "AsyncWith", "Try",
     "ExceptHandler", "Import", "ImportFrom", "FunctionDef",
     "AsyncFunctionDef", "arg", "ClassDef", "Nonlocal", "Global", "Pass"}

-----------------------------------------------------------------------------
(* Source locations.                                                       *)

(* ast.fix_missing_locations: a node without a position takes its         *)
(* parent's, and hands its own to its children.                            *)
LineOf(node, lineno) ==
    IF node.kind \in LocKinds /\ Has(node, "lineno") THEN node.lineno
    ELSE lineno

ColOf(node, col_offset) ==
    IF node.kind \in LocKinds /\ Has(node, "col_offset") THEN node.col_offset
    ELSE col_offset

RECURSIVE FixLoc(_, _, _)
FixChildren(node, lineno, col_offset) ==
    [f \in DOMAIN node |->
        IF IsListField(node.kind, f)
        THEN [i \in 1..Len(node[f]) |-> FixLoc(node[f][i], lineno, col_offset)]
        ELSE IF IsChildField(node.kind, f) /\ node[f] # PyNone
             THEN FixLoc(node[f], lineno, col_offset)
             ELSE node[f]]

FixLoc(node, lineno, col_offset) ==
    FixChildren(
        IF node.kind \in LocKinds
        THEN SetAttr(SetAttr(node, "lineno", LineOf(node, lineno)),
                     "col_offset", ColOf(node, col_offset))
        ELSE node,
        LineOf(node, lineno), ColOf(node, col_offset))

fix_missing_locations(node) == FixLoc(node, 1, 0)

CanCopy(old_node) == Has(old_node, "lineno") /\ Has(old_node, "col_offset")

copy_locations(new_node, old_node) ==
    fix_missing_locations(
        SetAttr(SetAttr(new_node, "lineno", old_node.lineno),
                "col_offset", old_node.col_offset))

-----------------------------------------------------------------------------
(* Node constructors, as the ast classes' constructors: a node built here  *)
(* has no lineno and no col_offset until copy_locations gives it some.     *)

Load == [kind |-> "Load"]
Store == [kind |-> "Store"]
Del == [kind |-> "Del"]
Name(id, ctx) == [kind |-> "Name", id |-> id, ctx |-> ctx]
Str(s) == [kind |-> "Str", s |-> s]
Num(n) == [kind |-> "Num", n |-> n]
NameConstant(value) == [kind |-> "NameConstant", value |-> value]
Tuple(elts, ctx) == [kind |-> "Tuple", elts |-> elts, ctx |-> ctx]
Dict(keys, values) == [kind |-> "Dict", keys |-> keys, values |-> values]
Call(func, args, keywords) ==
    [kind |-> "Call", func |-> func, args |-> args, keywords |-> keywords]
Attribute(value, attr, ctx) ==
    [kind |-> "Attribute", value |-> value, attr |-> attr, ctx |-> ctx]
Assign(targets, value) ==
    [kind |-> "Assign", targets |-> targets, value |-> value]
Delete(targets) == [kind |-> "Delete", targets |-> targets]
Try(body, handlers, orelse, finalbody) ==
    [kind |-> "Try", body |-> body, handlers |-> handlers,
     orelse |-> orelse, finalbody |-> finalbody]

-----------------------------------------------------------------------------
(* The transformer's state while a visit runs, and what a visit returns:   *)
(* out is <<>> for None, <<n>> for a node, and the list for a list.        *)

Ret(out, st) == [out |-> out, st |-> st]
Raise(st, e) == Ret(<<>>, [st EXCEPT !.exc = e])
Ok(st) == st.exc = ""

(* Sequencing.  Bind names a value for the statements that follow;         *)
(* AndThen runs them on the node and the state a visit returned, unless    *)
(* the visit raised.                                                       *)
Bind(v, Body(_)) == Body(v)
AndThen(r, Body(_, _)) == IF ~Ok(r.st) THEN r ELSE Body(r.out[1], r.st)

LineText(node) ==
    IF Has(node, "lineno") THEN ToString(node.lineno) ELSE "None"

error(st, node, info) ==
    [st EXCEPT !.errors = Append(@, "Line " \o LineText(node) \o ": " \o info)]

warn(st, node, info) ==
    [st EXCEPT !.warnings =
        Append(@, "Line " \o LineText(node) \o ": " \o info)]

gen_tmp_name(st) ==
    [name |-> "_tmp" \o ToString(st.tmp_idx),
     st |-> [st EXCEPT !.tmp_idx = @ + 1]]

not_allowed_warned(st, node) ==
    error(warn(st, node, node.kind \o " statements are not allowed."),
          node, node.kind \o " statements are not allowed.")

not_allowed(st, node) ==
    error(st, node, node.kind \o " statements are not allowed.")

generic_visit_silent(node, st) == Ret(<<>>, not_allowed(st, node))

generic_visit(node, st) ==
    Ret(<<>>,
        not_allowed(
            warn(st, node,
                 node.kind \o " statement is not known to RestrictedPython"),
            node))

check_name_prefix_only(st, node, name) ==
    IF name = NoneId THEN st
    ELSE IF StartsWith(name, "_") /\ name # "_"
    THEN error(st, node,
               "\"" \o name \o "\" is an invalid variable name because it "
               \o "starts with \"_\"")
    ELSE st

check_name(st, node, name) ==
    IF name = NoneId THEN st
    ELSE IF StartsWith(name, "_") /\ name # "_"
    THEN error(st, node,
               "\"" \o name \o "\" is an invalid variable name because it "
               \o "starts with \"_\"")
    ELSE IF EndsWith(name, "__roles__")
    THEN error(st, node,
               "\"" \o name \o "\" is an invalid variable name because "
               \o "it ends with \"__roles__\".")
    ELSE IF name = "printed"
    THEN error(st, node, "\"printed\" is a reserved name.")
    ELSE IF name = "print"
    THEN error(st, node, "\"print\" is a reserved name.")
    ELSE st

-----------------------------------------------------------------------------
(* The dispatcher and ast.NodeTransformer's walk over a node's children.   *)

RECURSIVE Visit(_, _)
RECURSIVE VisitList(_, _, _, _)
RECURSIVE VisitFields(_, _, _)

(* Each element of a list field is visited; None drops the element, a list *)
(* is spliced in, a node replaces it.                                      *)
VisitList(seq, i, acc, st) ==
    IF i > Len(seq) THEN Ret(acc, st)
    ELSE Bind(Visit(seq[i], st), LAMBDA r :
             IF ~Ok(r.st) THEN Ret(<<>>, r.st)
             ELSE VisitList(seq, i + 1, acc \o r.out, r.st))

(* The field f, the i-th of _fields; a child whose visit returns None is   *)
(* deleted from the node.                                                  *)
VisitField(node, f, i, st) ==
    IF ~Has(node, f) THEN VisitFields(node, i + 1, st)
    ELSE IF IsListField(node.kind, f)
    THEN Bind(VisitList(node[f], 1, <<>>, st), LAMBDA r :
             IF ~Ok(r.st) THEN Ret(<<>>, r.st)
             ELSE VisitFields(SetAttr(node, f, r.out), i + 1, r.st))
    ELSE IF IsChildField(node.kind, f) /\ node[f] # PyNone
    THEN Bind(Visit(node[f], st), LAMBDA r :
             IF ~Ok(r.st) THEN Ret(<<>>, r.st)
             ELSE IF r.out = <<>>
             THEN VisitFields(DelAttr(node, f), i + 1, r.st)
             ELSE VisitFields(SetAttr(node, f, r.out[1]), i + 1, r.st))
    ELSE VisitFields(node, i + 1, st)

(* The fields in _fields order.                                            *)
VisitFields(node, i, st) ==
    IF i > Len(FieldNames(node.kind)) THEN Ret(<<node>>, st)
    ELSE VisitField(node, FieldNames(node.kind)[i], i, st)

node_contents_visit(node, st) == VisitFields(node, 1, st)

-----------------------------------------------------------------------------
(* Names.                                                                  *)

visit_Name_recorded(node0, st0) ==
    AndThen(node_contents_visit(node0, st0), LAMBDA node, st :
        Ret(<<node>>,
            check_name([st EXCEPT !.used_names = @ \cup {node.id}],
                       node, node.id)))

visit_Name(node0, st0) ==
    AndThen(node_contents_visit(node0, st0), LAMBDA node, st :
        IF node.ctx.kind = "Load" /\ node.id = "printed"
        THEN Ret(<<copy_locations(Call(Name("_print", Load), <<>>, <<>>),
                                  node)>>,
                 [st EXCEPT !.printed_used = TRUE])
        ELSE IF node.ctx.kind = "Load" /\ node.id = "print"
        THEN Ret(<<copy_locations(
                      Attribute(Name("_print", Load), "_call_print", Load),
                      node)>>,
                 [st EXCEPT !.print_used = TRUE])
        ELSE IF node.ctx.kind = "Load"
        THEN Ret(<<node>>,
                 check_name([st EXCEPT !.used_names = @ \cup {node.id}],
                            node, node.id))
        ELSE Ret(<<node>>, check_name(st, node, node.id)))

-----------------------------------------------------------------------------
(* Attribute access.                                                       *)

AttributeNameErrors_once(st, node) ==
    IF StartsWith(node.attr, "_") /\ node.attr # "_"
    THEN error(st, node,
               "\"" \o node.attr \o "\" is an invalid attribute "
               \o "name because it starts with \"_\".")
    ELSE IF EndsWith(node.attr, "__roles__")
    THEN error(st, node,
               "\"" \o node.attr \o "\" is an invalid attribute name "
               \o "because it ends with \"__roles__\".")
    ELSE st

AttributeNameErrors(st, node) ==
    LET st1 == IF StartsWith(node.attr, "_") /\ node.attr # "_"
               THEN error(st, node,
                          "\"" \o node.attr \o "\" is an invalid attribute "
                          \o "name because it starts with \"_\".")
               ELSE st
    IN  IF EndsWith(node.attr, "__roles__")
        THEN error(st1, node,
                   "\"" \o node.attr \o "\" is an invalid attribute name "
                   \o "because it ends with \"__roles__\".")
        ELSE st1

visit_Attribute(node0, st0) ==
    AndThen(node_contents_visit(node0, AttributeNameErrors(st0, node0)),
            LAMBDA node, st :
        IF node.ctx.kind = "Load"
        THEN IF ~Has(node, "value") THEN Raise(st, "AttributeError")
             ELSE Ret(<<copy_locations(
                           Call(Name("_getattr_", Load),
                                <<node.value, Str(node.attr)>>, <<>>),
                           node)>>,
                      st)
        ELSE IF node.ctx.kind \in {"Store", "Del"}
        THEN IF ~Has(node, "value") THEN Raise(st, "AttributeError")
             ELSE Ret(<<SetAttr(node, "value",
                                copy_locations(
                                    Call(Name("_write_", Load),
                                         <<node.value>>, <<>>),
                                    node.value))>>,
                      st)
        ELSE Ret(<<node>>, st))

-----------------------------------------------------------------------------
(* Subscripts and slices.                                                  *)

gen_none_node ==
    IF IS_PY34_OR_GREATER THEN NameConstant(PyNone) ELSE Name("None", Load)

SliceBound(slice_, f) ==
    IF slice_[f] # PyNone THEN slice_[f] ELSE gen_none_node

RECURSIVE transform_slice(_)
RECURSIVE transform_dims(_, _, _)

(* The dimensions of an extended slice, left to right.                     *)
transform_dims(dims, i, acc) ==
    IF i > Len(dims) THEN [exc |-> "", out |-> acc]
    ELSE Bind(transform_slice(dims[i]), LAMBDA t :
             IF t.exc # "" THEN t
             ELSE transform_dims(dims, i + 1, Append(acc, t.out)))

(* Returns [exc, out]: the expression for the slice, or the exception.     *)
transform_slice(slice_) ==
    IF slice_.kind = "Index"
    THEN IF Has(slice_, "value") THEN [exc |-> "", out |-> slice_.value]
         ELSE [exc |-> "AttributeError", out |-> PyNone]
    ELSE IF slice_.kind = "Slice"
    THEN IF ~(Has(slice_, "lower") /\ Has(slice_, "upper")
              /\ Has(slice_, "step"))
         THEN [exc |-> "AttributeError", out |-> PyNone]
         ELSE [exc |-> "",
               out |-> Call(Name("slice", Load),
                            <<SliceBound(slice_, "lower"),
                              SliceBound(slice_, "upper"),
                              SliceBound(slice_, "step")>>,
                            <<>>)]
    ELSE IF slice_.kind = "ExtSlice"
    THEN Bind(transform_dims(slice_.dims, 1, <<>>), LAMBDA t :
             IF t.exc # "" THEN [exc |-> t.exc, out |-> PyNone]
             ELSE [exc |-> "", out |-> Tuple(t.out, Load)])
    ELSE [exc |-> "Exception", out |-> PyNone]

visit_Subscript(node0, st0) ==
    AndThen(node_contents_visit(node0, st0), LAMBDA node, st :
        IF node.ctx.kind = "Load"
        THEN IF ~Has(node, "value") THEN Raise(st, "AttributeError")
             ELSE IF ~Has(node, "slice") THEN Raise(st, "AttributeError")
             ELSE Bind(transform_slice(node.slice), LAMBDA t :
                      IF t.exc # "" THEN Raise(st, t.exc)
                      ELSE Ret(<<copy_locations(
                                    Call(Name("_getitem_", Load),
                                         <<node.value, t.out>>, <<>>),
                                    node)>>,
                               st))
        ELSE IF node.ctx.kind \in {"Del", "Store"}
        THEN IF ~Has(node, "value") THEN Raise(st, "AttributeError")
             ELSE Ret(<<SetAttr(node, "value",
                                copy_locations(
                                    Call(Name("_write_", Load),
                                         <<node.value>>, <<>>),
                                    node))>>,
                      st)
        ELSE Ret(<<node>>, st))

-----------------------------------------------------------------------------
(* Calls.                                                                  *)

needs_wrap_star_only(node) ==
    IF IS_PY35_OR_GREATER
    THEN \E i \in 1..Len(node.args) : node.args[i].kind = "Starred"
    ELSE node.starargs # PyNone

needs_wrap(node) ==
    IF IS_PY35_OR_GREATER
    THEN \/ \E i \in 1..Len(node.args) : node.args[i].kind = "Starred"
         \/ \E i \in 1..Len(node.keywords) : node.keywords[i].arg = NoneId
    ELSE node.starargs # PyNone \/ node.kwargs # PyNone

ExecEvalErrors_exec_only(st, node) ==
    IF node.func.kind = "Name" /\ node.func.id = "exec"
    THEN error(st, node, "Exec calls are not allowed.")
    ELSE st

ExecEvalErrors(st, node) ==
    IF node.func.kind = "Name" /\ node.func.id = "exec"
    THEN error(st, node, "Exec calls are not allowed.")
    ELSE IF node.func.kind = "Name" /\ node.func.id = "eval"
    THEN error(st, node, "Eval calls are not allowed.")
    ELSE st

visit_Call(node0, st0) ==
    AndThen(node_contents_visit(node0, ExecEvalErrors(st0, node0)),
            LAMBDA node, st :
        IF ~needs_wrap(node0) THEN Ret(<<node>>, st)
        ELSE IF ~Has(node, "func") THEN Raise(st, "AttributeError")
        ELSE IF ~CanCopy(node.func) THEN Raise(st, "AttributeError")
        ELSE Ret(<<[node EXCEPT
                      !.args = <<node.func>> \o @,
                      !.func = copy_locations(Name("_apply_", Load),
                                              node.func)]>>,
                 st))

-----------------------------------------------------------------------------
(* Sequence unpacking.                                                     *)

is_starred(ob) == IF IS_PY3 THEN ob.kind = "Starred" ELSE FALSE

RECURSIVE CountNotStarred(_, _)
CountNotStarred(elts, i) ==
    IF i > Len(elts) THEN 0
    ELSE (IF is_starred(elts[i]) THEN 0 ELSE 1) + CountNotStarred(elts, i + 1)

RECURSIVE gen_unpack_spec(_)
RECURSIVE UnpackChilds(_, _, _, _, _)

(* The loop over enumerate(tpl.elts): the (index, spec) pairs collected so *)
(* far are acc, offset is the loop's offset.                               *)
UnpackChilds(elts, i, min_len, offset, acc) ==
    IF i > Len(elts) THEN acc
    ELSE IF is_starred(elts[i])
    THEN UnpackChilds(elts, i + 1, min_len, min_len + 1, acc)
    ELSE IF elts[i].kind = "Tuple"
    THEN UnpackChilds(elts, i + 1, min_len, offset,
                      Append(acc,
                             Tuple(<<Num((i - 1) - offset),
                                     gen_unpack_spec(elts[i])>>, Load)))
    ELSE UnpackChilds(elts, i + 1, min_len, offset, acc)

gen_unpack_spec(tpl) ==
    LET min_len == CountNotStarred(tpl.elts, 1)
    IN  Dict(<<Str("childs"), Str("min_len")>>,
             <<Tuple(UnpackChilds(tpl.elts, 1, min_len, 0, <<>>), Load),
               Num(min_len)>>)

protect_unpack_sequence(target, value) ==
    Call(Name("_unpack_sequence_", Load),
         <<value, gen_unpack_spec(target), Name("_getiter_", Load)>>,
         <<>>)

gen_del_stmt(name_to_del) == Delete(<<Name(name_to_del, Del)>>)

(* Returns [tmp_target, cleanup, st]; ctx is 'store' at every caller of    *)
(* the 3.x dialects.                                                       *)
gen_unpack_wrapper(st, node, target) ==
    Bind(gen_tmp_name(st), LAMBDA t :
        LET converter == protect_unpack_sequence(target, Name(t.name, Load))
            try_body == <<Assign(<<target>>, converter)>>
            finalbody == <<gen_del_stmt(t.name)>>
            cleanup == Try(try_body, <<>>, <<>>, finalbody)
        IN  [tmp_target |-> copy_locations(Name(t.name, Store), node),
             cleanup |-> copy_locations(cleanup, node),
             st |-> t.st])

-----------------------------------------------------------------------------
(* Iteration.                                                              *)

guard_iter(node0, st0) ==
    AndThen(node_contents_visit(node0, st0), LAMBDA node, st :
        IF ~Has(node, "target") THEN Raise(st, "AttributeError")
        ELSE IF ~Has(node, "iter") THEN Raise(st, "AttributeError")
        ELSE IF ~CanCopy(node.iter) THEN Raise(st, "AttributeError")
        ELSE LET new_iter ==
                    IF node.target.kind = "Tuple"
                    THEN Call(Name("_iter_unpack_sequence_", Load),
                              <<node.iter, gen_unpack_spec(node.target),
                                Name("_getiter_", Load)>>,
                              <<>>)
                    ELSE Call(Name("_getiter_", Load), <<node.iter>>, <<>>)
             IN  Ret(<<SetAttr(node, "iter",
                               copy_locations(new_iter, node.iter))>>,
                     st))

-----------------------------------------------------------------------------
(* Assignment and augmented assignment.                                    *)

IOPERATOR_TO_STR(op) ==
    CASE op = "Add" -> "+="
      [] op = "Sub" -> "-="
      [] op = "Mult" -> "*="
      [] op = "Div" -> "/="
      [] op = "Mod" -> "%="
      [] op = "Pow" -> "**="
      [] op = "LShift" -> "<<="
      [] op = "RShift" -> ">>="
      [] op = "BitOr" -> "|="
      [] op = "BitXor" -> "^="
      [] op = "BitAnd" -> "&="
      [] op = "FloorDiv" -> "//="
      [] op = "MatMult" /\ IS_PY35_OR_GREATER -> "@="
      [] OTHER -> NoneId

(* The loop over reversed(node.targets).                                   *)
SplitAssign_bound(node) ==
    [j \in 1..Len(node.targets) |->
        LET target == node.targets[Len(node.targets) + 1 - j]
            value == IF j = 1 THEN node.value ELSE Name("_tmp0", Load)
        IN  IF target.kind = "Tuple"
            THEN copy_locations(
                     Assign(<<target>>,
                            protect_unpack_sequence(target, value)),
                     node)
            ELSE copy_locations(Assign(<<target>>, value), node)]

SplitAssign(node) ==
    [j \in 1..Len(node.targets) |->
        LET target == node.targets[Len(node.targets) + 1 - j]
        IN  IF target.kind = "Tuple"
            THEN copy_locations(
                     Assign(<<target>>,
                            protect_unpack_sequence(target, node.value)),
                     node)
            ELSE copy_locations(Assign(<<target>>, node.value), node)]

visit_Assign(node0, st0) ==
    AndThen(node_contents_visit(node0, st0), LAMBDA node, st :
        IF ~\E i \in 1..Len(node.targets) : node.targets[i].kind = "Tuple"
        THEN Ret(<<node>>, st)
        ELSE IF ~Has(node, "value") THEN Raise(st, "AttributeError")
        ELSE Ret(SplitAssign(node), st))

visit_AugAssign(node0, st0) ==
    AndThen(node_contents_visit(node0, st0), LAMBDA node, st :
        IF ~Has(node, "target") THEN Raise(st, "AttributeError")
        ELSE IF node.target.kind = "Attribute"
        THEN Ret(<<node>>,
                 error(st, node,
                       "Augmented assignment of attributes is not allowed."))
        ELSE IF node.target.kind = "Subscript"
        THEN Ret(<<node>>,
                 error(st, node,
                       "Augmented assignment of object items "
                       \o "and slices is not allowed."))
        ELSE IF node.target.kind = "Name"
        THEN IF ~Has(node, "op") THEN Raise(st, "AttributeError")
             ELSE IF IOPERATOR_TO_STR(node.op.kind) = NoneId
             THEN Raise(st, "KeyError")
             ELSE IF ~Has(node, "value") THEN Raise(st, "AttributeError")
             ELSE Ret(<<copy_locations(
                           Assign(<<node.target>>,
                                  Call(Name("_inplacevar_", Load),
                                       <<Str(IOPERATOR_TO_STR(node.op.kind)),
                                         Name(node.target.id, Load),
                                         node.value>>,
                                       <<>>)),
                           node)>>,
                      st)
        ELSE Ret(<<node>>, st))

-----------------------------------------------------------------------------
(* With statements and exception handlers.                                 *)

RECURSIVE WithItems(_, _, _, _)

(* The loop over reversed(items) of visit_With: i runs from the last item  *)
(* to the first; each unpack block is inserted at the front of the body.   *)
WithItems(node, withnode, i, st) ==
    IF i < 1 THEN [node |-> node, st |-> st]
    ELSE IF node.items[i].optional_vars.kind = "Tuple"
    THEN Bind(gen_unpack_wrapper(st, withnode, node.items[i].optional_vars),
              LAMBDA w :
             WithItems(
                 [node EXCEPT
                     !.items[i] = SetAttr(@, "optional_vars", w.tmp_target),
                     !.body = <<w.cleanup>> \o @],
                 withnode, i - 1, w.st))
    ELSE WithItems(node, withnode, i - 1, st)

visit_With(node0, st0) ==
    AndThen(node_contents_visit(node0, st0), LAMBDA node, st :
        Bind(WithItems(node, node, Len(node.items), st), LAMBDA w :
            Ret(<<w.node>>, w.st)))

visit_ExceptHandler(node0, st0) ==
    AndThen(node_contents_visit(node0, st0), LAMBDA node, st :
        Ret(<<node>>, check_name(st, node, node.name)))

-----------------------------------------------------------------------------
(* Imports.                                                                *)

RECURSIVE CheckAliases(_, _, _, _)
CheckAliases(st, node, names, i) ==
    IF i > Len(names) THEN st
    ELSE CheckAliases(
             check_name(check_name(st, node, names[i].name), node,
                        names[i].asname),
             node, names, i + 1)

check_import_names(node, st) ==
    node_contents_visit(node, CheckAliases(st, node, node.names, 1))

-----------------------------------------------------------------------------
(* Functions, lambdas, classes and modules.                                *)

RECURSIVE CheckArgs(_, _, _, _)
CheckArgs(st, node, args, i) ==
    IF i > Len(args) THEN st
    ELSE CheckArgs(check_name(st, node, args[i].arg), node, args, i + 1)

CheckOptArg(st, node, a) ==
    IF a # PyNone THEN check_name(st, node, a.arg) ELSE st

check_function_argument_names(st, node) ==
    CheckArgs(
        CheckOptArg(
            CheckOptArg(CheckArgs(st, node, node.args.args, 1), node,
                        node.args.vararg),
            node, node.args.kwarg),
        node, node.args.kwonlyargs, 1)

PrintCollector ==
    Assign(<<Name("_print", Store)>>,
           Call(Name("_print_", Load), <<Name("_getattr_", Load)>>, <<>>))

InsertAt(seq, position, x) ==
    SubSeq(seq, 1, position) \o <<x>> \o SubSeq(seq, position + 1, Len(seq))

LocatedCollector(node, position) ==
    IF node.kind = "Module"
    THEN fix_missing_locations(
             SetAttr(SetAttr(PrintCollector, "lineno", position),
                     "col_offset", position))
    ELSE copy_locations(PrintCollector, node)

inject_print_collector_print_only(st, node, position) ==
    IF st.print_used
    THEN [node |-> [node EXCEPT
                       !.body = InsertAt(@, position,
                                         LocatedCollector(node, position))],
          st |-> IF ~st.printed_used
                 THEN warn(st, node,
                           "Prints, but never reads 'printed' variable.")
                 ELSE st]
    ELSE [node |-> node, st |-> st]

(* Returns [node, st].                                                     *)
inject_print_collector(st, node, position) ==
    IF st.print_used \/ st.printed_used
    THEN Bind([node EXCEPT
                  !.body = InsertAt(@, position,
                                    LocatedCollector(node, position))],
              LAMBDA node1 :
             IF ~st.printed_used
             THEN [node |-> node1,
                   st |-> warn(st, node,
                               "Prints, but never reads 'printed' variable.")]
             ELSE IF ~st.print_used
             THEN [node |-> node1,
                   st |-> warn(st, node,
                               "Doesn't print, but reads 'printed' variable.")]
             ELSE [node |-> node1, st |-> st])
    ELSE [node |-> node, st |-> st]

(* PrintInfo.new_print_scope: the flags on entry, and their restoration in *)
(* the finally clause.                                                     *)
EnterPrintScope(st) == [st EXCEPT !.print_used = FALSE, !.printed_used = FALSE]
LeavePrintScope_kept(st, old) == st

LeavePrintScope(st, old) ==
    [st EXCEPT !.print_used = old.print_used,
               !.printed_used = old.printed_used]

visit_FunctionDef(node0, st0) ==
    Bind(check_function_argument_names(
             check_name(st0, node0, node0.name), node0),
         LAMBDA st1 :
        Bind(node_contents_visit(node0, EnterPrintScope(st1)), LAMBDA r :
            IF ~Ok(r.st) THEN Ret(<<>>, LeavePrintScope(r.st, st1))
            ELSE Bind(inject_print_collector(r.st, r.out[1], 0),
                      LAMBDA inj :
                     Ret(<<inj.node>>, LeavePrintScope(inj.st, st1)))))

visit_Lambda(node0, st0) ==
    node_contents_visit(node0, check_function_argument_names(st0, node0))

(* The class statement that ast.parse builds from CLASS_DEF.               *)
ParsedClassDef(name) ==
    LET metaclass ==
            [kind |-> "keyword", arg |-> "metaclass",
             value |-> [kind |-> "Name", id |-> "__metaclass__",
                        ctx |-> Load, lineno |-> 1,
                        col_offset |-> Len(name) + 17]]
        common ==
            [kind |-> "ClassDef", name |-> name, bases |-> <<>>,
             keywords |-> <<metaclass>>,
             body |-> <<[kind |-> "Pass", lineno |-> 2, col_offset |-> 4]>>,
             decorator_list |-> <<>>, lineno |-> 1, col_offset |-> 0]
    IN  IF IS_PY35_OR_GREATER THEN common
        ELSE SetAttr(SetAttr(common, "starargs", PyNone), "kwargs", PyNone)

MetaclassErrors_none(st, node) == st

MetaclassErrors(st, node) ==
    IF \E i \in 1..Len(node.keywords) : node.keywords[i].arg = "metaclass"
    THEN error(st, node,
               "The keyword argument \"metaclass\" is not allowed.")
    ELSE st

visit_ClassDef(node0, st0) ==
    AndThen(node_contents_visit(node0, check_name(st0, node0, node0.name)),
            LAMBDA node, st :
        IF IS_PY2 THEN Ret(<<node>>, st)
        ELSE Ret(<<[ParsedClassDef(node.name) EXCEPT
                      !.body = node.body,
                      !.bases = node.bases,
                      !.decorator_list = node.decorator_list]>>,
                 MetaclassErrors(st, node)))

RECURSIVE FuturePosition(_, _)
(* The value of position when the loop over enumerate(node.body) ends.     *)
FuturePosition(body, i) ==
    IF Len(body) = 0 THEN 0
    ELSE IF body[i + 1].kind # "ImportFrom" THEN i
    ELSE IF body[i + 1].module # "__future__" THEN i
    ELSE IF i + 1 = Len(body) THEN i
    ELSE FuturePosition(body, i + 1)

visit_Module_uncollected(node0, st0) == node_contents_visit(node0, st0)

visit_Module(node0, st0) ==
    AndThen(node_contents_visit(node0, st0), LAMBDA node, st :
        Bind(inject_print_collector(st, node, FuturePosition(node.body, 0)),
             LAMBDA inj : Ret(<<inj.node>>, inj.st)))

-----------------------------------------------------------------------------
(* The dispatcher: visit_<kind> when the transformer has one, and          *)
(* generic_visit otherwise.                                                *)

PassKinds ==
    {"Num", "Str", "Bytes", "List", "Tuple", "Set", "Dict", "NameConstant",
     "Load", "Store", "Del", "Starred", "Expression", "Expr", "UnaryOp",
     "UAdd", "USub", "Not", "Invert", "BinOp", "Add", "Sub", "Mult", "Div",
     "FloorDiv", "Mod", "Pow", "LShift", "RShift", "BitOr", "BitXor",
     "BitAnd", "BoolOp", "And", "Or", "Compare", "Eq", "NotEq", "Lt", "LtE",
     "Gt", "GtE", "Is", "IsNot", "In", "NotIn", "keyword", "IfExp", "Index",
     "Slice", "ExtSlice", "ListComp", "SetComp", "GeneratorExp", "DictComp",
     "Raise", "Assert", "Delete", "Pass", "alias", "If", "While", "Break",
     "Continue", "Try", "TryFinally", "TryExcept", "withitem", "arguments",
     "arg", "Return", "Global", "Param"}

DeniedKinds ==
    {"Ellipsis", "MatMult", "Exec", "Yield", "YieldFrom", "Nonlocal",
     "AsyncFunctionDef", "Await", "AsyncFor", "AsyncWith"}

(* The kinds with a visit_ method of their own.                            *)
HandlerKinds ==
    PassKinds \cup DeniedKinds
    \cup {"Name", "Attribute", "Subscript", "Call", "comprehension", "For",
          "Assign", "AugAssign", "With", "ExceptHandler", "Import",
          "ImportFrom", "FunctionDef", "Lambda", "ClassDef", "Module"}

Visit(node, st) ==
    IF ~Ok(st) THEN Ret(<<>>, st)
    ELSE CASE node.kind \in PassKinds -> node_contents_visit(node, st)
           [] node.kind \in DeniedKinds -> Ret(<<>>, not_allowed(st, node))
           [] node.kind = "Name" -> visit_Name(node, st)
           [] node.kind = "Attribute" -> visit_Attribute(node, st)
           [] node.kind = "Subscript" -> visit_Subscript(node, st)
           [] node.kind = "Call" -> visit_Call(node, st)
           [] node.kind = "comprehension" -> guard_iter(node, st)
           [] node.kind = "For" -> guard_iter(node, st)
           [] node.kind = "Assign" -> visit_Assign(node, st)
           [] node.kind = "AugAssign" -> visit_AugAssign(node, st)
           [] node.kind = "With" -> visit_With(node, st)
           [] node.kind = "ExceptHandler" -> visit_ExceptHandler(node, st)
           [] node.kind \in {"Import", "ImportFrom"} ->
                 check_import_names(node, st)
           [] node.kind = "FunctionDef" -> visit_FunctionDef(node, st)
           [] node.kind = "Lambda" -> visit_Lambda(node, st)
           [] node.kind = "ClassDef" -> visit_ClassDef(node, st)
           [] node.kind = "Module" -> visit_Module(node, st)
           [] OTHER -> generic_visit(node, st)

-----------------------------------------------------------------------------
(* Input trees, as the parser of the dialect builds them: every field of   *)
(* _fields is present, and every node of a class that carries a position   *)
(* has one.                                                                *)

At(node, lineno, col_offset) ==
    FixLoc(IF node.kind \in LocKinds
           THEN SetAttr(SetAttr(node, "lineno", lineno),
                        "col_offset", col_offset)
           ELSE node,
           lineno, col_offset)

Leaf(kind) == [kind |-> kind]
Starred(value, ctx) == [kind |-> "Starred", value |-> value, ctx |-> ctx]
keyword(arg, value) == [kind |-> "keyword", arg |-> arg, value |-> value]
Subscript(value, slice, ctx) ==
    [kind |-> "Subscript", value |-> value, slice |-> slice, ctx |-> ctx]
Index(value) == [kind |-> "Index", value |-> value]
Slice(lower, upper, step) ==
    [kind |-> "Slice", lower |-> lower, upper |-> upper, step |-> step]
ExtSlice(dims) == [kind |-> "ExtSlice", dims |-> dims]
Yield(value) == [kind |-> "Yield", value |-> value]
Await(value) == [kind |-> "Await", value |-> value]
JoinedStr(values) == [kind |-> "JoinedStr", values |-> values]
BinOp(left, op, right) ==
    [kind |-> "BinOp", left |-> left, op |-> op, right |-> right]
Expr(value) == [kind |-> "Expr", value |-> value]

(* A call f(posargs, *star, kw, **dstar) in the dialect's encoding.        *)
ParsedCall(func, posargs, kw, star, dstar) ==
    IF IS_PY35_OR_GREATER
    THEN Call(func,
              posargs \o (IF star = PyNone THEN <<>>
                          ELSE <<Starred(star, Load)>>),
              kw \o (IF dstar = PyNone THEN <<>>
                     ELSE <<keyword(NoneId, dstar)>>))
    ELSE [kind |-> "Call", func |-> func, args |-> posargs,
          keywords |-> kw, starargs |-> star, kwargs |-> dstar]

(* Expressions without children of their own.  The denied and the unknown  *)
(* kinds are those the dialect's grammar has.                              *)
Atoms ==
    {Name("a", Load), Num(1), Leaf("Ellipsis"), Yield(PyNone)}
    \cup (IF IS_PY35_OR_GREATER
          THEN {Await(Name("a", Load)), JoinedStr(<<Str("s")>>)}
          ELSE {})

MaxElts == 2
MaxTargets == 2
MaxChain == 2
MaxBody == 2

SeqsUpTo(S, n) == UNION {[1..k -> S] : k \in 0..n}
SeqsFrom1(S, n) == UNION {[1..k -> S] : k \in 1..n}

Pass == Leaf("Pass")
For(target, iter, body, orelse) ==
    [kind |-> "For", target |-> target, iter |-> iter, body |-> body,
     orelse |-> orelse]
comprehension(target, iter, ifs) ==
    [kind |-> "comprehension", target |-> target, iter |-> iter, ifs |-> ifs]
Comp(kind, elt, generators) ==
    [kind |-> kind, elt |-> elt, generators |-> generators]
DictComp(key, value, generators) ==
    [kind |-> "DictComp", key |-> key, value |-> value,
     generators |-> generators]
AugAssign(target, op, value) ==
    [kind |-> "AugAssign", target |-> target, op |-> op, value |-> value]
AnnAssign(target, annotation, value) ==
    [kind |-> "AnnAssign", target |-> target, annotation |-> annotation,
     value |-> value, simple |-> 1]
With(items, body) == [kind |-> "With", items |-> items, body |-> body]
withitem(context_expr, optional_vars) ==
    [kind |-> "withitem", context_expr |-> context_expr,
     optional_vars |-> optional_vars]
ExceptHandler(type, name, body) ==
    [kind |-> "ExceptHandler", type |-> type, name |-> name, body |-> body]
alias(name, asname) == [kind |-> "alias", name |-> name, asname |-> asname]
Import(names) == [kind |-> "Import", names |-> names]
ImportFrom(module, names) ==
    [kind |-> "ImportFrom", module |-> module, names |-> names, level |-> 0]
arg(a) == [kind |-> "arg", arg |-> a, annotation |-> PyNone]
OptArg(a) == IF a = NoneId THEN PyNone ELSE arg(a)
arguments(args, vararg, kwonlyargs, kwarg) ==
    [kind |-> "arguments", args |-> args, vararg |-> vararg,
     kwonlyargs |-> kwonlyargs,
     kw_defaults |-> [i \in 1..Len(kwonlyargs) |-> Num(1)],
     kwarg |-> kwarg, defaults |-> <<>>]
FunctionDef(name, args, body) ==
    [kind |-> "FunctionDef", name |-> name, args |-> args, body |-> body,
     decorator_list |-> <<>>, returns |-> PyNone]
Lambda(args, body) == [kind |-> "Lambda", args |-> args, body |-> body]
ParsedClassInput(name, bases, keywords, body, decorator_list) ==
    LET common == [kind |-> "ClassDef", name |-> name, bases |-> bases,
                   keywords |-> keywords, body |-> body,
                   decorator_list |-> decorator_list]
    IN  IF IS_PY35_OR_GREATER THEN common
        ELSE SetAttr(SetAttr(common, "starargs", PyNone), "kwargs", PyNone)
Module(body) == [kind |-> "Module", body |-> body]

(* Identifiers: the shapes the name policy distinguishes.                  *)
NameIds ==
    {"a", "_", "_x", "x__roles__", "_x__roles__", "print", "printed"}
OptNameIds == NameIds \cup {NoneId}

AttrNames ==
    {"b", "_", "_b", "b__roles__", "_b__roles__", "print", "printed"}

NameInputs ==
    {Name(id, ctx) :
        id \in NameIds \cup {"exec", "eval"}, ctx \in {Load, Store, Del}}

(* Chains of attribute reads, subscript reads and calls on a name.         *)
RECURSIVE Chains(_)
Chains(k) ==
    IF k = 0 THEN {Name("a", Load), Name("printed", Load)}
    ELSE LET C == Chains(k - 1)
         IN  C \cup {Attribute(e, "b", Load) : e \in C}
               \cup {Subscript(e, Index(Name("i", Load)), Load) : e \in C}
               \cup {ParsedCall(e, <<>>, <<>>, PyNone, PyNone) : e \in C}

AttributeInputs ==
    {Attribute(v, attr, ctx) :
        v \in Atoms, attr \in AttrNames, ctx \in {Load, Store, Del}}
    \cup {e \in Chains(MaxChain) : e.kind = "Attribute"}
    \cup {Attribute(e, "b", ctx) :
            e \in Chains(MaxChain - 1), ctx \in {Store, Del}}

SliceBounds == {PyNone, Num(1)}
Dims ==
    {Index(Name("i", Load)), Index(Leaf("Ellipsis")),
     Slice(PyNone, PyNone, PyNone), Slice(Num(1), PyNone, Num(2))}
Slices ==
    {Index(e) : e \in Atoms}
    \cup {Slice(l, u, st) : l \in SliceBounds, u \in SliceBounds, st \in SliceBounds}
    \cup {Slice(Yield(PyNone), PyNone, PyNone)}
    \cup {ExtSlice(d) : d \in SeqsFrom1(Dims, 2)}

SubscriptInputs ==
    {Subscript(v, sl, ctx) :
        v \in {Name("a", Load), Yield(PyNone), Attribute(Name("a", Load),
               "b", Load)},
        sl \in Slices, ctx \in {Load, Store, Del}}
    \cup {e \in Chains(MaxChain) : e.kind = "Subscript"}

Callees ==
    Atoms \cup {Name("exec", Load), Name("eval", Load), Name("print", Load),
                Attribute(Name("a", Load), "exec", Load)}

CallInputs ==
    {ParsedCall(f, pos, kw, star, dstar) :
        f \in Callees,
        pos \in {<<>>, <<Name("x", Load)>>,
                 <<Name("x", Load), Leaf("Ellipsis")>>},
        kw \in {<<>>, <<keyword("k", Name("y", Load))>>},
        star \in {PyNone, Name("s", Load)},
        dstar \in {PyNone, Name("d", Load)}}
    \cup {e \in Chains(MaxChain) : e.kind = "Call"}

(* Sequence patterns: parenthesized and bracketed, flat and nested, with   *)
(* at most one starred element.                                            *)
PatternElts ==
    {Name("p", Store), Starred(Name("q", Store), Store),
     Tuple(<<Name("r", Store), Name("s", Store)>>, Store),
     [kind |-> "List", elts |-> <<Name("r", Store), Name("s", Store)>>,
      ctx |-> Store]}

OneStar(elts) ==
    Cardinality({i \in 1..Len(elts) : elts[i].kind = "Starred"}) <= 1

Patterns ==
    {[kind |-> k, elts |-> es, ctx |-> Store] :
        k \in {"Tuple", "List"},
        es \in {x \in SeqsUpTo(PatternElts, MaxElts) : OneStar(x)}}

LoopTargets == Patterns \cup {Name("x", Store), Name("_x", Store)}

Iterables ==
    {Name("xs", Load), Attribute(Name("a", Load), "b", Load),
     Yield(PyNone)}

ForInputs ==
    {For(t, it, <<Pass>>, <<>>) : t \in LoopTargets, it \in Iterables}
    \cup {For(t, Name("xs", Load),
              <<For(u, Name("ys", Load), <<Pass>>, <<>>)>>, <<>>) :
            t \in {Name("x", Store),
                   Tuple(<<Name("p", Store), Name("q", Store)>>, Store)},
            u \in {Name("y", Store),
                   Tuple(<<Name("r", Store), Name("s", Store)>>, Store)}}

ComprehensionInputs ==
    {comprehension(t, it, <<>>) : t \in LoopTargets, it \in Iterables}

Clauses ==
    {comprehension(t, Name("xs", Load), <<>>) :
        t \in {Name("x", Store),
               Tuple(<<Name("p", Store), Name("q", Store)>>, Store),
               [kind |-> "List", elts |-> <<Name("p", Store)>>,
                ctx |-> Store]}}

CompInputs ==
    {Comp(k, Name("x", Load), g) :
        k \in {"ListComp", "SetComp", "GeneratorExp"},
        g \in SeqsFrom1(Clauses, 2)}
    \cup {DictComp(Name("x", Load), Name("x", Load), g) :
            g \in SeqsFrom1(Clauses, 2)}

AssignTargets ==
    {Name("x", Store), Name("_x", Store),
     Attribute(Name("a", Load), "b", Store),
     Tuple(<<Name("p", Store), Name("q", Store)>>, Store),
     Tuple(<<Name("p", Store),
             Tuple(<<Name("r", Store), Name("s", Store)>>, Store)>>, Store),
     [kind |-> "List", elts |-> <<Name("p", Store), Name("q", Store)>>,
      ctx |-> Store]}

AssignInputs ==
    {Assign(ts, v) :
        ts \in SeqsFrom1(AssignTargets, MaxTargets),
        v \in {Name("v", Load), Attribute(Name("a", Load), "b", Load),
               Subscript(Name("a", Load), Index(Name("i", Load)), Load),
               Comp("ListComp", Name("y", Load),
                    <<comprehension(Name("y", Store), Name("ys", Load),
                                    <<>>)>>),
               Yield(PyNone)}}
    \cup {Assign(<<t>>, Name("v", Load)) : t \in Patterns}
    \cup {Assign(<<Name(n, Store)>>, Num(1)) : n \in NameIds}

Operators ==
    {"Add", "Sub", "Mult", "Div", "Mod", "Pow", "LShift", "RShift", "BitOr",
     "BitXor", "BitAnd", "FloorDiv"}
    \cup (IF IS_PY35_OR_GREATER THEN {"MatMult"} ELSE {})

AugAssignInputs ==
    {AugAssign(t, Leaf(op), v) :
        t \in {Name("n", Store), Name("_x", Store),
               Attribute(Name("a", Load), "b", Store),
               Subscript(Name("a", Load), Index(Name("i", Load)), Store)},
        op \in Operators,
        v \in {Num(1), Yield(PyNone)}}

BinOpInputs ==
    {BinOp(l, Leaf(op), Name("b", Load)) : l \in Atoms, op \in Operators}

WithTargets ==
    {PyNone, Name("x", Store),
     Tuple(<<Name("p", Store), Name("q", Store)>>, Store),
     Tuple(<<Name("p", Store),
             Tuple(<<Name("r", Store), Name("s", Store)>>, Store)>>, Store),
     [kind |-> "List", elts |-> <<Name("p", Store), Name("q", Store)>>,
      ctx |-> Store]}

WithInputs ==
    {With(items, <<Pass>>) :
        items \in SeqsFrom1({withitem(Name("cm", Load), t) :
                                t \in WithTargets}, 2)}

ExceptHandlerInputs ==
    {ExceptHandler(t, n, <<Pass>>) :
        t \in {PyNone, Name("E", Load)}, n \in OptNameIds}

TryInputs ==
    {Try(<<Pass>>, <<h>>, <<>>, <<>>) : h \in ExceptHandlerInputs}

ImportInputs ==
    {Import(<<alias(n, a)>>) : n \in NameIds, a \in OptNameIds}
    \cup {ImportFrom(m, <<alias(n, a)>>) :
            m \in {"m", "_m", "__future__"}, n \in NameIds,
            a \in {NoneId, "a", "_x"}}
    \cup {Import(<<alias(n, NoneId), alias("m", a)>>) :
            n \in {"a", "_x"}, a \in {NoneId, "printed"}}

(* Formal parameters: a name in one position, the other positions absent   *)
(* or harmless, and some parameter lists with a name in every position.    *)
ArgumentLists ==
    {arguments(<<arg(n)>>, PyNone, <<>>, PyNone) : n \in NameIds}
    \cup {arguments(<<>>, OptArg(n), <<>>, PyNone) : n \in OptNameIds}
    \cup {arguments(<<>>, PyNone, <<>>, OptArg(n)) : n \in NameIds}
    \cup {arguments(<<>>, PyNone, <<arg(n)>>, PyNone) : n \in NameIds}
    \cup {arguments(<<arg("p"), arg(n)>>, OptArg(v), <<arg("k")>>, OptArg(w)) :
            n \in {"a", "_x"}, v \in {"a", "print"},
            w \in {"a", "x__roles__"}}

Bodies ==
    {<<Pass>>, <<Expr(Name("print", Load))>>,
     <<Expr(Name("printed", Load))>>,
     <<Expr(Name("print", Load)), Expr(Name("printed", Load))>>}

FunctionDefInputs ==
    {FunctionDef(n, arguments(<<>>, PyNone, <<>>, PyNone), b) :
        n \in NameIds, b \in Bodies}
    \cup {FunctionDef("f", a, <<Pass>>) : a \in ArgumentLists}
    \cup {FunctionDef("f", arguments(<<>>, PyNone, <<>>, PyNone),
                       <<Expr(Lambda(arguments(<<>>, PyNone, <<>>, PyNone),
                                     Name("print", Load)))>>),
          FunctionDef("f", arguments(<<>>, PyNone, <<>>, PyNone),
                      <<Expr(Name("print", Load)),
                        For(Name("x", Store), Yield(PyNone),
                            <<Pass>>, <<>>)>>)}

LambdaInputs ==
    {Lambda(a, b) :
        a \in ArgumentLists, b \in {Name("v", Load), Name("print", Load)}}

ClassDefInputs ==
    {ParsedClassInput(n, bases, kws, <<Pass>>, decos) :
        n \in NameIds,
        bases \in {<<>>, <<Name("B", Load)>>},
        kws \in {<<>>, <<keyword("metaclass", Name("M", Load))>>,
                 <<keyword("k", Name("v", Load))>>},
        decos \in {<<>>, <<Name("deco", Load)>>}}
    \cup {ParsedClassInput(n, <<Attribute(Name("a", Load), "b", Load)>>,
                           <<keyword("metaclass", Name("M", Load)),
                             keyword("k", Attribute(Name("v", Load), "w",
                                                    Load))>>,
                           <<Expr(Attribute(Name("a", Load), "b", Load)),
                             Pass>>,
                           <<Name("deco", Load), Name("deco2", Load)>>) :
            n \in {"C", "_x"}}

Statements ==
    {Expr(Name("print", Load)), Expr(Name("printed", Load)),
     Expr(Name("a", Load)),
     ImportFrom("__future__", <<alias("division", NoneId)>>),
     Assign(<<Name("_x", Store)>>, Num(1)),
     FunctionDef("f", arguments(<<>>, PyNone, <<>>, PyNone),
                 <<Expr(Name("print", Load))>>)}

ModuleInputs ==
    {Module([i \in 1..Len(b) |-> At(b[i], i, 0)]) :
        b \in SeqsUpTo(Statements, MaxBody)}
    \cup {Module(<<At(Expr(ParsedCall(Name("print", Load), <<Num(1)>>, <<>>,
                                      PyNone, PyNone)), 1, 0)>>)}
    \cup {Module(<<At(Expr(Name("print", Load)), 1, 0),
                   At(FunctionDef("f", arguments(<<>>, PyNone, <<>>, PyNone),
                                  <<Expr(Name("printed", Load)),
                                    For(Name("x", Store), Yield(PyNone),
                                        <<Pass>>, <<>>)>>), 2, 0)>>),
          Module(<<At(Expr(Lambda(arguments(<<>>, PyNone, <<>>, PyNone),
                                  Name("printed", Load))), 1, 0)>>),
          Module(<<At(Pass, 1, 0),
                   At(ParsedClassInput("C", <<>>, <<>>, <<Pass>>, <<>>),
                      2, 0)>>)}

DeniedInputs ==
    {Leaf("Ellipsis"), Yield(PyNone),
     Yield(Attribute(Name("a", Load), "_b", Load)),
     [kind |-> "YieldFrom", value |-> Name("printed", Load)],
     [kind |-> "Nonlocal", names |-> <<"a">>]}
    \cup (IF IS_PY35_OR_GREATER
          THEN {Await(Name("a", Load)),
                [FunctionDef("_f", arguments(<<>>, PyNone, <<>>, PyNone),
                             <<Pass>>) EXCEPT !.kind = "AsyncFunctionDef"],
                [For(Name("x", Store), Name("xs", Load), <<Pass>>, <<>>)
                    EXCEPT !.kind = "AsyncFor"],
                [With(<<withitem(Name("cm", Load), PyNone)>>, <<Pass>>)
                    EXCEPT !.kind = "AsyncWith"],
                [With(<<withitem(Name("cm", Load),
                                 Tuple(<<Name("p", Store), Name("q", Store)>>,
                                       Store))>>,
                      <<Expr(Name("print", Load))>>)
                    EXCEPT !.kind = "AsyncWith"]}
          ELSE {})

(* Kinds the transformer has no visit_ method for: formatted strings and   *)
(* annotated assignments of the later 3.x grammars, and the root of an     *)
(* interactive statement.                                                  *)
UnknownInputs ==
    {[kind |-> "Interactive", body |-> <<Expr(Name("_x", Load))>>]}
    \cup (IF IS_PY35_OR_GREATER
          THEN {JoinedStr(<<Str("s")>>),
                JoinedStr(<<[kind |-> "FormattedValue",
                             value |-> Name("_x", Load)]>>),
                AnnAssign(Name("_x", Store), Name("int", Load), PyNone),
                AnnAssign(Name("x", Store), Name("int", Load), Num(1))}
          ELSE {})

(* An unknown or denied node inside an expression or a statement list.     *)
ContainerInputs ==
    {Expr(e) : e \in Atoms}
    \cup {Tuple(<<e, Name("a", Load), f>>, Load) : e \in Atoms, f \in Atoms}
    \cup {Expr(Yield(Attribute(Name("a", Load), "_b", Load))),
           Module(<<At(Expr(Yield(Name("print", Load))), 1, 0),
                    At(Expr(Name("c", Load)), 2, 0)>>)}
    \cup (IF IS_PY35_OR_GREATER
          THEN {Module(<<At(AnnAssign(Name("x", Store), Name("int", Load),
                                      Num(1)), 1, 0),
                         At(Expr(JoinedStr(<<Str("s")>>)), 2, 0)>>)}
          ELSE {})

-----------------------------------------------------------------------------
(* The state machine: a transformer is constructed, and visit is called on *)
(* one tree.                                                               *)

InitSt ==
    [errors |-> <<>>, warnings |-> <<>>, used_names |-> {}, tmp_idx |-> 0,
     print_used |-> FALSE, printed_used |-> FALSE, exc |-> ""]

Init ==
    /\ dialect \in Dialects
    /\ pc = "ready"
    /\ tree = PyNone
    /\ result = <<>>
    /\ errors = InitSt.errors
    /\ warnings = InitSt.warnings
    /\ used_names = InitSt.used_names
    /\ tmp_idx = InitSt.tmp_idx
    /\ print_info = [print_used |-> InitSt.print_used,
                     printed_used |-> InitSt.printed_used]
    /\ exc = InitSt.exc

(* visit(located) returned or raised: r is what it left behind.            *)
Finish(located, r) ==
    /\ tree' = located
    /\ result' = r.out
    /\ errors' = r.st.errors
    /\ warnings' = r.st.warnings
    /\ used_names' = r.st.used_names
    /\ tmp_idx' = r.st.tmp_idx
    /\ print_info' = [print_used |-> r.st.print_used,
                      printed_used |-> r.st.printed_used]
    /\ exc' = r.st.exc
    /\ pc' = "done"
    /\ UNCHANGED dialect

(* visit(node) on the freshly constructed transformer.                     *)
Transform(located) == Finish(located, Visit(located, InitSt))

Run(node) == Transform(At(node, 1, 0))

VisitName == pc = "ready" /\ \E node \in NameInputs : Run(node)
VisitAttribute == pc = "ready" /\ \E node \in AttributeInputs : Run(node)
VisitSubscript == pc = "ready" /\ \E node \in SubscriptInputs : Run(node)
VisitCall == pc = "ready" /\ \E node \in CallInputs : Run(node)
VisitFor == pc = "ready" /\ \E node \in ForInputs : Run(node)
VisitComprehension == pc = "ready" /\ \E node \in ComprehensionInputs : Run(node)
VisitComp == pc = "ready" /\ \E node \in CompInputs : Run(node)
VisitAssign == pc = "ready" /\ \E node \in AssignInputs : Run(node)
VisitAugAssign == pc = "ready" /\ \E node \in AugAssignInputs : Run(node)
VisitBinOp == pc = "ready" /\ \E node \in BinOpInputs : Run(node)
VisitWith == pc = "ready" /\ \E node \in WithInputs : Run(node)
VisitExceptHandler == pc = "ready" /\ \E node \in ExceptHandlerInputs : Run(node)
VisitTry == pc = "ready" /\ \E node \in TryInputs : Run(node)
VisitImport == pc = "ready" /\ \E node \in ImportInputs : Run(node)
VisitFunctionDef == pc = "ready" /\ \E node \in FunctionDefInputs : Run(node)
VisitLambda == pc = "ready" /\ \E node \in LambdaInputs : Run(node)
VisitClassDef == pc = "ready" /\ \E node \in ClassDefInputs : Run(node)
VisitModule == pc = "ready" /\ \E node \in ModuleInputs : Run(node)
VisitDenied == pc = "ready" /\ \E node \in DeniedInputs : Run(node)
VisitUnknown == pc = "ready" /\ \E node \in UnknownInputs : Run(node)
VisitContainer == pc = "ready" /\ \E node \in ContainerInputs : Run(node)

Next ==
    \/ VisitName
    \/ VisitAttribute
    \/ VisitSubscript
    \/ VisitCall
    \/ VisitFor
    \/ VisitComprehension
    \/ VisitComp
    \/ VisitAssign
    \/ VisitAugAssign
    \/ VisitBinOp
    \/ VisitWith
    \/ VisitExceptHandler
    \/ VisitTry
    \/ VisitImport
    \/ VisitFunctionDef
    \/ VisitLambda
    \/ VisitClassDef
    \/ VisitModule
    \/ VisitDenied
    \/ VisitUnknown
    \/ VisitContainer

Spec == Init /\ [][Next]_vars

-----------------------------------------------------------------------------
(* Walks over a tree, for the properties below.  Nodes(t) lists every node *)
(* of t in the order the fields are visited; Reached(t) leaves out what    *)
(* lies below a node of a denied or an unknown kind.                       *)

Rejected(kind) == kind \in DeniedKinds \/ kind \notin HandlerKinds

RECURSIVE Walk(_, _)
RECURSIVE WalkList(_, _, _)
RECURSIVE WalkFields(_, _, _)

WalkList(seq, i, prune) ==
    IF i > Len(seq) THEN <<>>
    ELSE Walk(seq[i], prune) \o WalkList(seq, i + 1, prune)

WalkField(node, f, prune) ==
    IF ~Has(node, f) THEN <<>>
    ELSE IF IsListField(node.kind, f) THEN WalkList(node[f], 1, prune)
    ELSE IF IsChildField(node.kind, f) /\ node[f] # PyNone
    THEN Walk(node[f], prune)
    ELSE <<>>

WalkFields(node, i, prune) ==
    IF i > Len(FieldNames(node.kind)) THEN <<>>
    ELSE WalkField(node, FieldNames(node.kind)[i], prune)
         \o WalkFields(node, i + 1, prune)

Walk(node, prune) ==
    <<node>> \o (IF prune /\ Rejected(node.kind) THEN <<>>
                 ELSE WalkFields(node, 1, prune))

Nodes(t) == Walk(t, FALSE)
Reached(t) == Walk(t, TRUE)

OutputNodes == WalkList(result, 1, FALSE)

Done == pc = "done"
Returned == pc = "done" /\ exc = ""

-----------------------------------------------------------------------------
(* C1: reject-by-default.                                                  *)

IsUnknownNode(n) == n.kind \notin HandlerKinds
UnknownReached == SelectSeq(Reached(tree), IsUnknownNode)

NotKnownText(n) ==
    "Line " \o LineText(n) \o ": " \o n.kind
    \o " statement is not known to RestrictedPython"
NotAllowedText(n) ==
    "Line " \o LineText(n) \o ": " \o n.kind \o " statements are not allowed."

IsNotKnownWarning(w) ==
    EndsWith(w, " statement is not known to RestrictedPython")
IsRefusalOf(e, nodes) ==
    \E i \in 1..Len(nodes) :
        EndsWith(e, ": " \o nodes[i].kind \o " statements are not allowed.")

(* The warnings and errors of the unknown nodes, in visiting order, and an *)
(* output without a node of an unknown kind.                               *)
IsRefused(unknown, output) ==
    /\ SelectSeq(warnings, IsNotKnownWarning)
          = [i \in 1..Len(unknown) |-> NotKnownText(unknown[i])]
    /\ SelectSeq(errors, LAMBDA e : IsRefusalOf(e, unknown))
          = [i \in 1..Len(unknown) |-> NotAllowedText(unknown[i])]
    /\ \A i \in 1..Len(output) : ~IsUnknownNode(output[i])

(* C1: when visit returns, every node of a kind without a handler that the *)
(* dispatcher reached has recorded exactly one warning naming its kind and *)
(* exactly one error refusing it, in visiting order, and no node of such a *)
(* kind is in the output tree.                                             *)
C1_RejectByDefault == Returned => IsRefused(UnknownReached, OutputNodes)

(* An annotated assignment and a formatted string in one module.           *)
C1_Witness ==
    /\ Returned
    /\ tree.kind = "Module"
    /\ Len(UnknownReached) = 2
    /\ Len(warnings) = 2
    /\ Len(errors) = 2

-----------------------------------------------------------------------------
(* C2: visit never raises.                                                 *)

(* C2: for every input tree, visit returns: no exception leaves it.        *)
C2_NeverRaises == Done => exc = ""

-----------------------------------------------------------------------------
(* C3: the name policy in binding positions.                               *)

BadName(n) ==
    \/ StartsWith(n, "_") /\ n # "_"
    \/ EndsWith(n, "__roles__")
    \/ n \in {"print", "printed"}

ArgNames(a) ==
    [i \in 1..Len(a.args) |-> a.args[i].arg]
    \o (IF a.vararg = PyNone THEN <<>> ELSE <<a.vararg.arg>>)
    \o (IF a.kwarg = PyNone THEN <<>> ELSE <<a.kwarg.arg>>)
    \o [i \in 1..Len(a.kwonlyargs) |-> a.kwonlyargs[i].arg]

RECURSIVE AliasNames(_, _)
AliasNames(names, i) ==
    IF i > Len(names) THEN <<>>
    ELSE <<names[i].name, names[i].asname>> \o AliasNames(names, i + 1)

(* The names a node binds, and the name a Name node stands for; a read of  *)
(* print or printed is no name but the print machinery.                    *)
NamesAt(n) ==
    CASE n.kind = "Name" ->
            IF n.ctx.kind = "Load" /\ n.id \in {"print", "printed"} THEN <<>>
            ELSE <<n.id>>
      [] n.kind = "FunctionDef" -> <<n.name>> \o ArgNames(n.args)
      [] n.kind = "Lambda" -> ArgNames(n.args)
      [] n.kind = "ClassDef" -> <<n.name>>
      [] n.kind \in {"Import", "ImportFrom"} -> AliasNames(n.names, 1)
      [] n.kind = "ExceptHandler" -> <<n.name>>
      [] OTHER -> <<>>

RECURSIVE NamesIn(_, _)
NamesIn(nodes, i) ==
    IF i > Len(nodes) THEN <<>>
    ELSE NamesAt(nodes[i]) \o NamesIn(nodes, i + 1)

CheckedNames == NamesIn(Reached(tree), 1)

LineTexts == {"None"} \cup {ToString(l) : l \in 1..(MaxBody + 1)}

IsNameError(e, n) ==
    \E l \in LineTexts :
        \/ StartsWith(e, "Line " \o l \o ": \"" \o n
                          \o "\" is an invalid variable name because")
        \/ e = "Line " \o l \o ": \"" \o n \o "\" is a reserved name."

Count(seq, n) == Cardinality({i \in 1..Len(seq) : seq[i] = n})
NameErrors(n) == Cardinality({i \in 1..Len(errors) : IsNameError(errors[i], n)})

(* C3: when visit returns, each name has one name error for each of its    *)
(* occurrences in a checked position if it starts with "_" without being   *)
(* "_", ends with "__roles__" or is print or printed, and none otherwise;  *)
(* the position plays no part, and an absent name records nothing.         *)
C3_NamePolicy ==
    Returned =>
        \A n \in NameIds \cup {NoneId}
                  \cup {CheckedNames[i] : i \in 1..Len(CheckedNames)} :
            NameErrors(n) = IF BadName(n) THEN Count(CheckedNames, n) ELSE 0

(* A function whose second parameter, var-arg and kw-arg are each refused. *)
C3_Witness ==
    /\ Returned
    /\ tree.kind = "FunctionDef"
    /\ CheckedNames = <<"f", "p", "_x", "print", "x__roles__", "k">>
    /\ Len(errors) = 3

C3_WitnessAbsent ==
    /\ Returned
    /\ tree.kind = "ExceptHandler"
    /\ tree.name = NoneId
    /\ errors = <<>>

-----------------------------------------------------------------------------
(* C4: the name policy for attribute names.                                *)

AttrsReached ==
    SelectSeq(Reached(tree), LAMBDA n : n.kind = "Attribute")

IsPrefixError(e, a) ==
    \E l \in LineTexts :
        e = "Line " \o l \o ": \"" \o a \o "\" is an invalid attribute name "
            \o "because it starts with \"_\"."
IsSuffixError(e, a) ==
    \E l \in LineTexts :
        e = "Line " \o l \o ": \"" \o a \o "\" is an invalid attribute name "
            \o "because it ends with \"__roles__\"."

AttrCount(a) ==
    Cardinality({i \in 1..Len(AttrsReached) : AttrsReached[i].attr = a})
PrefixErrors(a) ==
    Cardinality({i \in 1..Len(errors) : IsPrefixError(errors[i], a)})
SuffixErrors(a) ==
    Cardinality({i \in 1..Len(errors) : IsSuffixError(errors[i], a)})

(* C4: when visit returns, each attribute access, whatever its context,    *)
(* has recorded one error if its name starts with "_" without being "_",   *)
(* and one more if it ends with "__roles__"; print, printed and "_" as     *)
(* attribute names record none.                                            *)
C4_AttributeNamePolicy ==
    Returned =>
        \A a \in AttrNames \cup {"exec"} :
            /\ PrefixErrors(a) =
                  IF StartsWith(a, "_") /\ a # "_" THEN AttrCount(a) ELSE 0
            /\ SuffixErrors(a) =
                  IF EndsWith(a, "__roles__") THEN AttrCount(a) ELSE 0
            /\ a \in {"print", "printed", "_"} =>
                  PrefixErrors(a) + SuffixErrors(a) = 0

(* a._b__roles__ in each context: two errors.                              *)
C4_Witness ==
    /\ Returned
    /\ tree.kind = "Attribute"
    /\ tree.attr = "_b__roles__"
    /\ tree.ctx.kind \in {"Store", "Del"}
    /\ Len(errors) = 2

-----------------------------------------------------------------------------
(* Support for the rewriting properties: a tree without its positions, the *)
(* transformed form of a part of the input, and calls to a guard.          *)

RECURSIVE Unlocated(_)
Unlocated(node) ==
    [f \in DOMAIN node \ {"lineno", "col_offset"} |->
        IF IsListField(node.kind, f)
        THEN [i \in 1..Len(node[f]) |-> Unlocated(node[f][i])]
        ELSE IF IsChildField(node.kind, f) /\ node[f] # PyNone
             THEN Unlocated(node[f])
             ELSE node[f]]

Transformed(e) == Visit(e, InitSt).out[1]
TransformedList(es) == VisitList(es, 1, <<>>, InitSt).out

IsCallTo(n, guard) ==
    /\ n.kind = "Call"
    /\ Has(n, "func")
    /\ n.func.kind = "Name"
    /\ n.func.id = guard

CallsTo(nodes, guard) ==
    Cardinality({i \in 1..Len(nodes) : IsCallTo(nodes[i], guard)})

InContext(nodes, kind, ctxs) ==
    {i \in 1..Len(nodes) :
        nodes[i].kind = kind /\ nodes[i].ctx.kind \in ctxs}

(* A node whose object is one call of _write_ on something that is not     *)
(* itself such a call.                                                     *)
WritesThrough(n) ==
    /\ Has(n, "value")
    /\ IsCallTo(n.value, "_write_")
    /\ Len(n.value.args) = 1
    /\ ~IsCallTo(n.value.args[1], "_write_")
    /\ n.value.keywords = <<>>

-----------------------------------------------------------------------------
(* C5: attribute reads, stores and deletes.                                *)

(* C5: when visit returns, an attribute read obj.name has become the call  *)
(* _getattr_(obj', "name") on the transformed obj, and the output holds    *)
(* one _getattr_ call for each attribute read of the input and no other    *)
(* attribute read than the print machinery's; an attribute store or delete *)
(* is the same attribute in the same context on one _write_(obj') call.    *)
C5_AttributeRewrite ==
    Returned =>
        /\ tree.kind = "Attribute" /\ tree.ctx.kind = "Load" =>
              /\ Len(result) = 1
              /\ IsCallTo(result[1], "_getattr_")
              /\ Len(result[1].args) = 2
              /\ result[1].args[1] = Transformed(tree.value)
              /\ Unlocated(result[1].args[2]) = Str(tree.attr)
              /\ result[1].keywords = <<>>
        /\ tree.kind = "Attribute" /\ tree.ctx.kind \in {"Store", "Del"} =>
              /\ Len(result) = 1
              /\ result[1].kind = "Attribute"
              /\ result[1].attr = tree.attr
              /\ result[1].ctx = tree.ctx
              /\ WritesThrough(result[1])
              /\ result[1].value.args[1] = Transformed(tree.value)
        /\ CallsTo(OutputNodes, "_getattr_")
              = Cardinality(InContext(Reached(tree), "Attribute", {"Load"}))
        /\ \A i \in InContext(OutputNodes, "Attribute", {"Load"}) :
              Unlocated(OutputNodes[i])
                = Attribute(Name("_print", Load), "_call_print", Load)
        /\ Cardinality(InContext(OutputNodes, "Attribute", {"Store", "Del"}))
              = Cardinality(InContext(Reached(tree), "Attribute",
                                      {"Store", "Del"}))
        /\ \A i \in InContext(OutputNodes, "Attribute", {"Store", "Del"}) :
              WritesThrough(OutputNodes[i])

(* a.b.b: two reads, two nested calls.                                     *)
C5_Witness ==
    /\ Returned
    /\ tree.kind = "Attribute"
    /\ tree.ctx.kind = "Load"
    /\ tree.value.kind = "Attribute"
    /\ CallsTo(OutputNodes, "_getattr_") = 2
    /\ IsCallTo(result[1].args[1], "_getattr_")

C5_WitnessStore ==
    /\ Returned
    /\ tree.kind = "Attribute"
    /\ tree.ctx.kind = "Store"
    /\ tree.value.kind = "Attribute"
    /\ IsCallTo(result[1].value.args[1], "_getattr_")

-----------------------------------------------------------------------------
(* C6: subscript reads, stores and deletes.                                *)

NoneLiteral == NameConstant(PyNone)

RECURSIVE IndexExpression(_)
(* The expression that stands for a transformed slice.                     *)
IndexExpression(sl) ==
    CASE sl.kind = "Index" -> Unlocated(sl.value)
      [] sl.kind = "Slice" ->
            Call(Name("slice", Load),
                 <<IF sl.lower = PyNone THEN NoneLiteral
                   ELSE Unlocated(sl.lower),
                   IF sl.upper = PyNone THEN NoneLiteral
                   ELSE Unlocated(sl.upper),
                   IF sl.step = PyNone THEN NoneLiteral
                   ELSE Unlocated(sl.step)>>,
                 <<>>)
      [] sl.kind = "ExtSlice" ->
            Tuple([i \in 1..Len(sl.dims) |-> IndexExpression(sl.dims[i])],
                  Load)

(* C6: when visit returns, a subscript read obj[slc] has become the call   *)
(* _getitem_(obj', S), S the index, slice(l, u, s) with the none literal   *)
(* for each missing bound, or the tuple of the parts; the output holds one *)
(* _getitem_ call for each subscript read of the input and no subscript    *)
(* read; a subscript store or delete is the same subscript with the        *)
(* transformed slice on one _write_(obj') call.                            *)
C6_SubscriptRewrite ==
    Returned =>
        /\ tree.kind = "Subscript" /\ tree.ctx.kind = "Load" =>
              /\ Len(result) = 1
              /\ IsCallTo(result[1], "_getitem_")
              /\ Len(result[1].args) = 2
              /\ result[1].args[1] = Transformed(tree.value)
              /\ Unlocated(result[1].args[2])
                    = IndexExpression(Transformed(tree.slice))
              /\ result[1].keywords = <<>>
        /\ tree.kind = "Subscript" /\ tree.ctx.kind \in {"Store", "Del"} =>
              /\ Len(result) = 1
              /\ result[1].kind = "Subscript"
              /\ result[1].slice = Transformed(tree.slice)
              /\ result[1].ctx = tree.ctx
              /\ WritesThrough(result[1])
              /\ result[1].value.args[1] = Transformed(tree.value)
        /\ CallsTo(OutputNodes, "_getitem_")
              = Cardinality(InContext(Reached(tree), "Subscript", {"Load"}))
        /\ InContext(OutputNodes, "Subscript", {"Load"}) = {}
        /\ Cardinality(InContext(OutputNodes, "Subscript", {"Store", "Del"}))
              = Cardinality(InContext(Reached(tree), "Subscript",
                                      {"Store", "Del"}))
        /\ \A i \in InContext(OutputNodes, "Subscript", {"Store", "Del"}) :
              WritesThrough(OutputNodes[i])

(* a[:] gives _getitem_(a, slice(None, None, None)).                       *)
C6_Witness ==
    /\ Returned
    /\ tree.kind = "Subscript"
    /\ tree.ctx.kind = "Load"
    /\ tree.slice = Slice(PyNone, PyNone, PyNone)
    /\ Unlocated(result[1])
         = Call(Name("_getitem_", Load),
                <<Name("a", Load),
                  Call(Name("slice", Load),
                       <<NoneLiteral, NoneLiteral, NoneLiteral>>, <<>>)>>,
                <<>>)

C6_WitnessExtSlice ==
    /\ Returned
    /\ tree.kind = "Subscript"
    /\ tree.ctx.kind = "Load"
    /\ tree.slice.kind = "ExtSlice"
    /\ Len(tree.slice.dims) = 2
    /\ result[1].args[2].kind = "Tuple"
    /\ IsCallTo(result[1].args[2].elts[2], "slice")

-----------------------------------------------------------------------------
(* C7: the guard on iterables.                                             *)

IsSequencePattern(t) == t.kind \in {"Tuple", "List"}

OfKind(nodes, kinds) == {i \in 1..Len(nodes) : nodes[i].kind \in kinds}

(* The guarded form of the iterable of a loop or clause n of the output,   *)
(* n0 being its transformed form before the guard.                         *)
IterGuarded(n, iter0) ==
    /\ Has(n, "iter")
    /\ IF IsSequencePattern(n.target)
       THEN /\ IsCallTo(n.iter, "_iter_unpack_sequence_")
            /\ Len(n.iter.args) = 3
            /\ n.iter.args[1] = iter0
            /\ Unlocated(n.iter.args[3]) = Name("_getiter_", Load)
       ELSE /\ IsCallTo(n.iter, "_getiter_")
            /\ n.iter.args = <<iter0>>

(* C7: when visit returns, the iterable of a for loop or of a clause is    *)
(* _iter_unpack_sequence_(iterable, spec, _getiter_) if its target is a    *)
(* sequence pattern and _getiter_(iterable) if not, and the output holds   *)
(* one such guard call for each loop and clause of the input.              *)
C7_IterGuard ==
    Returned =>
        /\ tree.kind \in {"For", "comprehension"} =>
              /\ Len(result) = 1
              /\ IterGuarded(result[1], Transformed(tree.iter))
        /\ CallsTo(OutputNodes, "_getiter_")
            + CallsTo(OutputNodes, "_iter_unpack_sequence_")
              = Cardinality(OfKind(Reached(tree), {"For", "comprehension"}))

(* The same, for parenthesized patterns and names only, and without the    *)
(* count.                                                                  *)
C7_TupleOrName ==
    Returned /\ tree.kind \in {"For", "comprehension"}
             /\ tree.target.kind # "List" =>
        IterGuarded(result[1], Transformed(tree.iter))

-----------------------------------------------------------------------------
(* C8: bracketed patterns.                                                 *)

RECURSIVE NestsBracketed(_)
NestsBracketed(t) ==
    \/ t.kind = "List"
    \/ /\ t.kind \in {"Tuple", "List"}
       /\ \E i \in 1..Len(t.elts) : NestsBracketed(t.elts[i])

RECURSIVE Parenthesized(_)
(* The pattern with every bracketed list in it written as a tuple.         *)
Parenthesized(t) ==
    IF t.kind \in {"Tuple", "List"}
    THEN [t EXCEPT !.kind = "Tuple",
                   !.elts = [i \in 1..Len(t.elts) |-> Parenthesized(t.elts[i])]]
    ELSE IF t.kind = "Starred"
    THEN [t EXCEPT !.value = Parenthesized(t.value)]
    ELSE t

(* The guard call around the value assigned to, or iterated into, the      *)
(* pattern of an output statement, without the pattern itself.             *)
GuardOf(n) ==
    IF n.kind = "Assign" THEN Unlocated(n.value) ELSE Unlocated(n.iter)

(* C8: when visit returns, an assignment, for loop or clause whose single  *)
(* target is a pattern with a bracketed list in it carries the guard call  *)
(* and the unpack spec that the same statement carries with every bracket  *)
(* written as a parenthesis.                                               *)
C8_BracketedGuarded ==
    Returned /\ tree.kind \in {"Assign", "For", "comprehension"} =>
        LET target == IF tree.kind = "Assign" THEN tree.targets[1]
                      ELSE tree.target
            written == IF tree.kind = "Assign"
                       THEN [tree EXCEPT !.targets =
                                <<Parenthesized(tree.targets[1])>>]
                       ELSE [tree EXCEPT !.target = Parenthesized(tree.target)]
        IN  (tree.kind = "Assign" => Len(tree.targets) = 1)
            /\ NestsBracketed(target) =>
                GuardOf(result[1]) = GuardOf(Transformed(written))

(* The same for the items of a with statement: a bracketed as-target gets  *)
(* its temporary and its guarded block.                                    *)
C8_BracketedWithItem ==
    Returned /\ tree.kind = "With" =>
        \A i \in 1..Len(tree.items) :
            IsSequencePattern(tree.items[i].optional_vars) =>
                result[1].items[i].optional_vars.kind = "Name"

-----------------------------------------------------------------------------
(* C9 and C10: calls.                                                      *)

HasStar(call) ==
    IF IS_PY35_OR_GREATER
    THEN \/ \E i \in 1..Len(call.args) : call.args[i].kind = "Starred"
         \/ \E i \in 1..Len(call.keywords) : call.keywords[i].arg = NoneId
    ELSE call.starargs # PyNone \/ call.kwargs # PyNone

HasCallee(call) == TransformedList(<<call.func>>) # <<>>

(* The star and double-star arguments of the earlier dialect, unchanged    *)
(* but for their transformation.                                           *)
KeepsStarFields(out, call) ==
    IS_PY35_OR_GREATER
    \/ /\ call.starargs # PyNone => out.starargs = Transformed(call.starargs)
       /\ call.starargs = PyNone => out.starargs = PyNone
       /\ call.kwargs # PyNone => out.kwargs = Transformed(call.kwargs)
       /\ call.kwargs = PyNone => out.kwargs = PyNone

IsApplyForm(out, call) ==
    /\ IsCallTo(out, "_apply_")
    /\ out.args = <<Transformed(call.func)>> \o TransformedList(call.args)
    /\ out.keywords = TransformedList(call.keywords)
    /\ KeepsStarFields(out, call)

IsPlainForm(out, call) ==
    /\ out.kind = "Call"
    /\ out.func = Transformed(call.func)
    /\ out.args = TransformedList(call.args)
    /\ out.keywords = TransformedList(call.keywords)
    /\ KeepsStarFields(out, call)

(* C9: when visit returns a call whose callee has a transformed form, the  *)
(* call is _apply_(callee', args..., keywords...) if it has a star or a    *)
(* double-star argument, and callee'(args..., keywords...) if it has not.  *)
C9_ApplyIffStar ==
    Returned /\ tree.kind = "Call" /\ HasCallee(tree) =>
        /\ Len(result) = 1
        /\ IF HasStar(tree) THEN IsApplyForm(result[1], tree)
           ELSE IsPlainForm(result[1], tree)

(* f(x, *s, k=y, **d) on a callee that is an attribute read.               *)
C9_Witness ==
    /\ Returned
    /\ tree.kind = "Call"
    /\ tree.func.kind = "Attribute"
    /\ HasStar(tree)
    /\ IsCallTo(result[1], "_apply_")
    /\ IsCallTo(result[1].args[1], "_getattr_")
    /\ Len(result[1].args) >= 2
    /\ Len(result[1].keywords) >= 1

IsExecOrEval(call) ==
    call.func.kind = "Name" /\ call.func.id \in {"exec", "eval"}

ExecEvalText(call) ==
    "Line " \o LineText(call) \o ": "
    \o (IF call.func.id = "exec" THEN "Exec" ELSE "Eval")
    \o " calls are not allowed."

RECURSIVE LoadNames(_, _)
(* The names read in a list of nodes.                                      *)
LoadNames(nodes, i) ==
    IF i > Len(nodes) THEN {}
    ELSE (IF nodes[i].kind = "Name" /\ nodes[i].ctx.kind = "Load"
          THEN {nodes[i].id} ELSE {})
         \cup LoadNames(nodes, i + 1)

ChildrenVisited(call) ==
    LoadNames(Reached(call), 1) \ {"print", "printed"} \subseteq used_names

(* C10 as stated: a call of the bare name exec or eval records exactly one *)
(* error, its children are visited, and it keeps its callee: it is not put *)
(* into the _apply_ form, star arguments or not.                           *)
C10_ExecEvalNotRewritten ==
    Returned /\ tree.kind = "Call" /\ IsExecOrEval(tree) =>
        /\ errors = <<ExecEvalText(tree)>>
        /\ ChildrenVisited(tree)
        /\ IsPlainForm(result[1], tree)

(* C10: a call of the bare name exec or eval records exactly one error,    *)
(* its children are visited, and it is put into the _apply_ form exactly   *)
(* when it has a star or a double-star argument, as any other call is.     *)
C10_ExecEvalError ==
    Returned /\ tree.kind = "Call" /\ IsExecOrEval(tree) =>
        /\ SelectSeq(errors, LAMBDA e : EndsWith(e, " calls are not allowed."))
              = <<ExecEvalText(tree)>>
        /\ ChildrenVisited(tree)
        /\ IF HasStar(tree) THEN IsApplyForm(result[1], tree)
           ELSE IsPlainForm(result[1], tree)

(* eval(x, *s): one error, and the _apply_ form.                           *)
C10_Witness ==
    /\ Returned
    /\ tree.kind = "Call"
    /\ IsExecOrEval(tree)
    /\ tree.func.id = "eval"
    /\ HasStar(tree)
    /\ errors = <<"Line 1: Eval calls are not allowed.">>
    /\ "x" \in used_names
    /\ IsCallTo(result[1], "_apply_")
    /\ Unlocated(result[1].args[1]) = Name("eval", Load)

-----------------------------------------------------------------------------
(* C11 and C19: assignments to sequence patterns, and the unpack spec.     *)

(* The shape the text gives the unpack spec of a pattern: min_len, and one *)
(* (index, spec) child for each element that is a pattern, the index being *)
(* counted from the end once a starred element has gone by.                *)
StarBefore(elts, i) == \E j \in 1..(i - 1) : elts[j].kind = "Starred"

RECURSIVE ShapeOf(_, _)
ShapeOf(pattern, kinds) ==
    LET elts == pattern.elts
        at == SelectSeq([i \in 1..Len(elts) |-> i],
                        LAMBDA i : elts[i].kind \in kinds)
    IN  [min_len |->
            Cardinality({i \in 1..Len(elts) : elts[i].kind # "Starred"}),
         childs |->
            [k \in 1..Len(at) |->
                [index |-> IF StarBefore(elts, at[k])
                           THEN (at[k] - 1) - Len(elts)
                           ELSE at[k] - 1,
                 spec |-> ShapeOf(elts[at[k]], kinds)]]]

(* The shape a spec of the output describes: the dictionary                *)
(* {'childs': ((index, spec), ...), 'min_len': n}.                         *)
RECURSIVE ShapeIn(_)
ShapeIn(d) ==
    [min_len |-> d.values[2].n,
     childs |->
        [k \in 1..Len(d.values[1].elts) |->
            [index |-> d.values[1].elts[k].elts[1].n,
             spec |-> ShapeIn(d.values[1].elts[k].elts[2])]]]

IsSpecDict(d) ==
    /\ d.kind = "Dict"
    /\ [i \in 1..Len(d.keys) |-> d.keys[i].s] = <<"childs", "min_len">>

(* e is the call guard(value, spec, _getiter_) with the spec of pattern.   *)
IsUnpackOf(e, guard, value, pattern, kinds) ==
    /\ IsCallTo(e, guard)
    /\ Len(e.args) = 3
    /\ e.keywords = <<>>
    /\ e.args[1] = value
    /\ IsSpecDict(Unlocated(e.args[2]))
    /\ ShapeIn(Unlocated(e.args[2])) = ShapeOf(pattern, kinds)
    /\ Unlocated(e.args[3]) = Name("_getiter_", Load)

Bracketed == {"Tuple", "List"}
ParenthesizedOnly == {"Tuple"}

HasValue(assign) == ~Rejected(assign.value.kind)

(* The statements the text gives for the assignment: itself when no target *)
(* is a pattern, one assignment for each target from the right if not.     *)
IsSplitOf(out, assign, kinds) ==
    LET n == Len(assign.targets)
        targets == TransformedList(assign.targets)
        value == Transformed(assign.value)
    IN  IF ~\E i \in 1..n : assign.targets[i].kind \in kinds
        THEN out = <<[assign EXCEPT !.targets = targets, !.value = value]>>
        ELSE /\ Len(out) = n
             /\ \A j \in 1..n :
                   /\ out[j].kind = "Assign"
                   /\ out[j].targets = <<targets[n + 1 - j]>>
                   /\ IF assign.targets[n + 1 - j].kind \in kinds
                      THEN IsUnpackOf(out[j].value, "_unpack_sequence_", value,
                                      assign.targets[n + 1 - j], kinds)
                      ELSE out[j].value = value

(* C11: when visit returns an assignment t1 = ... = tn = expr whose expr   *)
(* has a transformed form, the output is the one assignment with its       *)
(* children transformed if no target is a sequence pattern, parenthesized  *)
(* or bracketed; if one is, the output is n assignments, tn first, a       *)
(* pattern being assigned _unpack_sequence_(expr, spec, _getiter_) with    *)
(* the spec of that pattern and any other target expr.                     *)
C11_AssignSplit ==
    Returned /\ tree.kind = "Assign" /\ HasValue(tree) =>
        IsSplitOf(result, tree, Bracketed)

(* The same with the parenthesized patterns as the only patterns.          *)
C11_TupleSplit ==
    Returned /\ tree.kind = "Assign" /\ HasValue(tree) =>
        IsSplitOf(result, tree, ParenthesizedOnly)

(* x = (p, (r, s)) = a.b has become two assignments, the pattern first.    *)
C11_Witness ==
    /\ Returned
    /\ tree.kind = "Assign"
    /\ Len(tree.targets) = 2
    /\ tree.targets[1].kind = "Name"
    /\ tree.targets[2].kind = "Tuple"
    /\ Len(result) = 2
    /\ IsCallTo(result[1].value, "_unpack_sequence_")
    /\ Len(ShapeIn(Unlocated(result[1].value.args[2])).childs) = 1
    /\ IsCallTo(result[2].value, "_getattr_")

-----------------------------------------------------------------------------
(* C12: augmented assignments.                                             *)

(* The textual token of an augmented assignment's operator.                *)
TokenOf(op) ==
    CASE op = "Add" -> "+="      [] op = "Sub" -> "-="
      [] op = "Mult" -> "*="     [] op = "Div" -> "/="
      [] op = "Mod" -> "%="      [] op = "Pow" -> "**="
      [] op = "LShift" -> "<<="  [] op = "RShift" -> ">>="
      [] op = "BitOr" -> "|="    [] op = "BitXor" -> "^="
      [] op = "BitAnd" -> "&="   [] op = "FloorDiv" -> "//="
      [] op = "MatMult" -> "@="

AugmentedText(target) ==
    "Line 1: Augmented assignment of "
    \o (IF target.kind = "Attribute" THEN "attributes"
        ELSE "object items and slices")
    \o " is not allowed."

(* What the text gives for an augmented assignment whose visit has ended.  *)
IsAugmented(aug) ==
    /\ exc = ""
    /\ Len(result) = 1
    /\ IF aug.target.kind \in {"Attribute", "Subscript"}
       THEN /\ errors = <<AugmentedText(aug.target)>>
            /\ result[1] = [aug EXCEPT !.target = Transformed(aug.target),
                                       !.value = Transformed(aug.value)]
       ELSE Unlocated(result[1])
              = Assign(<<Unlocated(aug.target)>>,
                       Call(Name("_inplacevar_", Load),
                            <<Str(TokenOf(aug.op.kind)),
                              Name(aug.target.id, Load),
                              Unlocated(Transformed(aug.value))>>,
                            <<>>))

(* C12: the visit of target op= value, value having a transformed form,    *)
(* records exactly the error about attributes or about items and slices    *)
(* for an attribute or subscript target and leaves the statement as it is, *)
(* and turns a name target into target = _inplacevar_("op=", target,       *)
(* value), for each of the twelve operators and, in the 3.5+ dialect, @=.  *)
C12_AugAssign ==
    Done /\ tree.kind = "AugAssign" /\ HasValue(tree) => IsAugmented(tree)

(* The same for the twelve operators other than @=.                        *)
C12_TwelveOperators ==
    Done /\ tree.kind = "AugAssign" /\ HasValue(tree)
         /\ tree.op.kind # "MatMult" => IsAugmented(tree)

(* n **= 1 has become n = _inplacevar_("**=", n, 1).                       *)
C12_Witness ==
    /\ Returned
    /\ tree.kind = "AugAssign"
    /\ tree.target.kind = "Name"
    /\ tree.op.kind = "Pow"
    /\ result[1].kind = "Assign"
    /\ Unlocated(result[1].value.args[1]) = Str("**=")

-----------------------------------------------------------------------------
(* C13 and C14: the print collector.                                       *)

IsCollector(stmt) ==
    Unlocated(stmt)
      = Assign(<<Name("_print", Store)>>,
               Call(Name("_print_", Load), <<Name("_getattr_", Load)>>, <<>>))

Collectors(stmts) == Cardinality({i \in 1..Len(stmts) : IsCollector(stmts[i])})

NeverReadsText == "Prints, but never reads 'printed' variable."
NeverPrintsText == "Doesn't print, but reads 'printed' variable."

IsScope(n) == n.kind \in {"Module", "FunctionDef"}

(* The two flags of a scope when the visit of its body ends: the scope is  *)
(* entered with both flags false.                                          *)
ExitFlags(scope) == node_contents_visit(scope, InitSt).st

Prints(scope) == ExitFlags(scope).print_used
Reads(scope) == ExitFlags(scope).printed_used

(* The scopes of the input: the module, and each function definition.      *)
Scopes == SelectSeq(Reached(tree), IsScope)

Warned(text) ==
    Cardinality({i \in 1..Len(warnings) :
                    warnings[i] \in {"Line " \o l \o ": " \o text :
                                        l \in LineTexts}})

HowMany(seq, Test(_)) == Cardinality({i \in 1..Len(seq) : Test(seq[i])})

(* C13: when the visit of a module or of a function definition returns,    *)
(* its body holds the assignment _print = _print_(_getattr_) once if one   *)
(* of the scope's two flags is set and not at all if none is; over all the *)
(* scopes of the input, there is one such assignment for each scope with a *)
(* flag set, one warning "Prints, but never reads ..." for each scope that *)
(* prints and does not read, one warning "Doesn't print, but reads ..."    *)
(* for each scope that reads and does not print, and none for a scope with *)
(* both flags or with no flag.                                             *)
C13_CollectorInjection ==
    Returned /\ IsScope(tree) =>
        /\ Collectors(result[1].body)
              = IF Prints(tree) \/ Reads(tree) THEN 1 ELSE 0
        /\ Collectors(OutputNodes)
              = HowMany(Scopes, LAMBDA s : Prints(s) \/ Reads(s))
        /\ Warned(NeverReadsText)
              = HowMany(Scopes, LAMBDA s : Prints(s) /\ ~Reads(s))
        /\ Warned(NeverPrintsText)
              = HowMany(Scopes, LAMBDA s : Reads(s) /\ ~Prints(s))

(* A function that reads printed and does not print.                       *)
C13_Witness ==
    /\ Returned
    /\ tree.kind = "FunctionDef"
    /\ Reads(tree) /\ ~Prints(tree)
    /\ Len(result[1].body) = 2
    /\ IsCollector(result[1].body[1])
    /\ warnings = <<"Line 1: " \o NeverPrintsText>>

(* A module that prints and reads: the collector, and no warning.          *)
C13_WitnessBoth ==
    /\ Returned
    /\ tree.kind = "Module"
    /\ Prints(tree) /\ Reads(tree)
    /\ Collectors(result[1].body) = 1
    /\ warnings = <<>>

(* print(1) as the parser of the dialect builds it.                        *)
PrintCallModule ==
    Module(<<At(Expr(ParsedCall(Name("print", Load), <<Num(1)>>, <<>>,
                                PyNone, PyNone)), 1, 0)>>)

(* The module _print = _print_(_getattr_); _print._call_print(1).          *)
IsCollectedPrintCall ==
    /\ Len(result) = 1
    /\ result[1].kind = "Module"
    /\ Len(result[1].body) = 2
    /\ IsCollector(result[1].body[1])
    /\ result[1].body[2].kind = "Expr"
    /\ IsPlainForm(result[1].body[2].value, tree.body[1].value)
    /\ Unlocated(result[1].body[2].value.func)
          = Attribute(Name("_print", Load), "_call_print", Load)
    /\ Len(result[1].body[2].value.args) = 1
    /\ Unlocated(result[1].body[2].value.args[1]) = Num(1)

(* C14 as stated: the visit of the module print(1) returns the module with *)
(* the collector prepended and the call rewritten, records no error, and   *)
(* emits no warning about print and printed.                               *)
C14_PrintCallUnwarned ==
    Done /\ tree = PrintCallModule =>
        /\ exc = ""
        /\ IsCollectedPrintCall
        /\ errors = <<>>
        /\ Warned(NeverReadsText) = 0
        /\ Warned(NeverPrintsText) = 0

(* C14: the visit of the module print(1) returns the module with the       *)
(* collector prepended and the call rewritten, records no error, and emits *)
(* the one warning that the module prints and never reads printed.         *)
C14_PrintCall ==
    Done /\ tree = PrintCallModule =>
        /\ exc = ""
        /\ IsCollectedPrintCall
        /\ errors = <<>>
        /\ warnings = <<"Line None: " \o NeverReadsText>>

C14_Witness ==
    /\ Returned
    /\ tree = PrintCallModule
    /\ IsCollectedPrintCall
    /\ print_info.print_used
    /\ ~print_info.printed_used
    /\ Len(warnings) = 1

-----------------------------------------------------------------------------
(* C15: print scopes.                                                      *)

(* The nodes the dispatcher reaches in a tree without entering a node of   *)
(* one of the kinds in scopes.                                             *)
RECURSIVE Outside(_, _)
RECURSIVE OutsideList(_, _, _)
RECURSIVE OutsideFields(_, _, _)

OutsideList(seq, i, scopes) ==
    IF i > Len(seq) THEN <<>>
    ELSE Outside(seq[i], scopes) \o OutsideList(seq, i + 1, scopes)

OutsideField(node, f, scopes) ==
    IF IsListField(node.kind, f) THEN OutsideList(node[f], 1, scopes)
    ELSE IF IsChildField(node.kind, f) /\ node[f] # PyNone
    THEN Outside(node[f], scopes)
    ELSE <<>>

OutsideFields(node, i, scopes) ==
    IF i > Len(FieldNames(node.kind)) THEN <<>>
    ELSE OutsideField(node, FieldNames(node.kind)[i], scopes)
         \o OutsideFields(node, i + 1, scopes)

Outside(node, scopes) ==
    IF node.kind \in scopes THEN <<>>
    ELSE <<node>> \o (IF Rejected(node.kind) THEN <<>>
                      ELSE OutsideFields(node, 1, scopes))

IsLoadOf(n, id) == n.kind = "Name" /\ n.ctx.kind = "Load" /\ n.id = id

HasLoadOf(nodes, id) == \E i \in 1..Len(nodes) : IsLoadOf(nodes[i], id)

UsedOutside(id, scopes) == HasLoadOf(Outside(tree, scopes), id)

(* The flags and the collector of the scope the visit started in, when the *)
(* kinds in scopes are those with a print scope of their own.              *)
IsIsolatedFrom(scopes) ==
    /\ print_info.print_used => UsedOutside("print", scopes)
    /\ print_info.printed_used => UsedOutside("printed", scopes)
    /\ exc = "" =>
          /\ UsedOutside("print", scopes) => print_info.print_used
          /\ UsedOutside("printed", scopes) => print_info.printed_used
          /\ tree.kind = "Module" =>
                Collectors(result[1].body)
                  = IF UsedOutside("print", scopes)
                       \/ UsedOutside("printed", scopes)
                    THEN 1 ELSE 0

C15_WitnessRaised ==
    /\ Done
    /\ exc # ""
    /\ tree.kind = "Module"
    /\ tree.body[2].kind = "FunctionDef"
    /\ IsLoadOf(tree.body[2].body[1].value, "printed")
    /\ print_info = [print_used |-> TRUE, printed_used |-> FALSE]

-----------------------------------------------------------------------------
(* C16: names that are read.                                               *)

PolicyErrors(id) == IF BadName(id) THEN 1 ELSE 0

(* What the text gives for the visit of one name.                          *)
IsNameVisit(name) ==
    /\ Len(result) = 1
    /\ IF name.ctx.kind = "Load" /\ name.id = "printed"
       THEN /\ Unlocated(result[1]) = Call(Name("_print", Load), <<>>, <<>>)
            /\ print_info = [print_used |-> FALSE, printed_used |-> TRUE]
            /\ used_names = {}
            /\ errors = <<>>
       ELSE IF name.ctx.kind = "Load" /\ name.id = "print"
       THEN /\ Unlocated(result[1])
                 = Attribute(Name("_print", Load), "_call_print", Load)
            /\ print_info = [print_used |-> TRUE, printed_used |-> FALSE]
            /\ used_names = {}
            /\ errors = <<>>
       ELSE /\ result[1] = name
            /\ print_info = [print_used |-> FALSE, printed_used |-> FALSE]
            /\ used_names = IF name.ctx.kind = "Load" THEN {name.id} ELSE {}
            /\ Len(errors) = PolicyErrors(name.id)
            /\ NameErrors(name.id) = PolicyErrors(name.id)

(* C16: when visit returns, a read of printed has become _print() and set  *)
(* printed_used, a read of print has become _print._call_print and set     *)
(* print_used, neither with an error or an entry in used_names; any other  *)
(* name is returned as it is and checked by the name policy; and           *)
(* used_names holds exactly the names, other than print and printed, that  *)
(* the dispatcher reached in load position: a name in store or delete      *)
(* position adds nothing to it.                                            *)
C16_LoadNames ==
    Returned =>
        /\ tree.kind = "Name" => IsNameVisit(tree)
        /\ used_names = LoadNames(Reached(tree), 1) \ {"print", "printed"}

(* The read of printed.                                                    *)
C16_Witness ==
    /\ Returned
    /\ tree.kind = "Name"
    /\ tree.id = "printed"
    /\ tree.ctx.kind = "Load"
    /\ IsCallTo(result[1], "_print")
    /\ print_info.printed_used

(* x = (p, q) = a.b: a is read, and x, p and q are not.                    *)
C16_WitnessStore ==
    /\ Returned
    /\ tree.kind = "Assign"
    /\ Len(tree.targets) = 2
    /\ tree.targets[1].kind = "Name"
    /\ used_names = {"a"}

-----------------------------------------------------------------------------
(* C17: the names the transformer introduces.                              *)

NameIdsOf(nodes) ==
    {nodes[i].id : i \in {j \in 1..Len(nodes) : nodes[j].kind = "Name"}}

(* The identifiers of the output that the input does not have.             *)
Introduced == NameIdsOf(OutputNodes) \ NameIdsOf(Nodes(tree))

(* The name policy records nothing for the identifier.                     *)
Accepted(id) == check_name(InitSt, tree, id).errors = <<>>

(* The temporaries that are bound in the output.                           *)
TmpStores ==
    {i \in 1..Len(OutputNodes) :
        /\ OutputNodes[i].kind = "Name"
        /\ OutputNodes[i].ctx.kind = "Store"
        /\ StartsWith(OutputNodes[i].id, "_tmp")}

TmpsDistinct ==
    /\ Cardinality(TmpStores) = tmp_idx
    /\ Cardinality({OutputNodes[i].id : i \in TmpStores}) = tmp_idx

(* C17: when visit returns, the name policy refuses every identifier of    *)
(* the output that the input does not have, and the temporaries bound in   *)
(* the output are as many as were minted and differ from one another.      *)
C17_IntroducedRefused ==
    Returned => /\ \A id \in Introduced : ~Accepted(id)
                /\ TmpsDistinct

(* The same for every introduced identifier but slice.                     *)
C17_AllButSlice ==
    Returned => /\ \A id \in Introduced \ {"slice"} : ~Accepted(id)
                /\ TmpsDistinct

(* A with statement of two patterns: two temporaries.                      *)
C17_Witness ==
    /\ Returned
    /\ tree.kind = "With"
    /\ tmp_idx = 2
    /\ Introduced = {"_tmp0", "_tmp1", "_unpack_sequence_", "_getiter_"}

-----------------------------------------------------------------------------
(* C18: class definitions.                                                 *)

MetaclassText ==
    "Line 1: The keyword argument \"metaclass\" is not allowed."

GivesMetaclass(class) ==
    \E i \in 1..Len(class.keywords) : class.keywords[i].arg = "metaclass"

(* C18: when the visit of a class definition returns, the output is a      *)
(* class definition of the same name whose only keyword is                 *)
(* metaclass=__metaclass__ and whose bases, decorators and body are those  *)
(* of the input, transformed and in their order; the error about the       *)
(* metaclass keyword is recorded once if the input has that keyword and    *)
(* not at all if not, no name of a keyword value of the input is in the    *)
(* output, and the class name is checked by the name policy.               *)
C18_ClassDef ==
    Returned /\ tree.kind = "ClassDef" =>
        /\ Len(result) = 1
        /\ result[1].kind = "ClassDef"
        /\ result[1].name = tree.name
        /\ Len(result[1].keywords) = 1
        /\ result[1].keywords[1].arg = "metaclass"
        /\ Unlocated(result[1].keywords[1].value)
              = Name("__metaclass__", Load)
        /\ result[1].bases = TransformedList(tree.bases)
        /\ result[1].decorator_list = TransformedList(tree.decorator_list)
        /\ result[1].body = TransformedList(tree.body)
        /\ Count(errors, MetaclassText)
              = IF GivesMetaclass(tree) THEN 1 ELSE 0
        /\ NameIdsOf(OutputNodes)
              \cap NameIdsOf(WalkList(tree.keywords, 1, FALSE)) = {}
        /\ NameErrors(tree.name) = PolicyErrors(tree.name)

(* class _x(a.b, metaclass=M, k=v): two statements, decorated.             *)
C18_Witness ==
    /\ Returned
    /\ tree.kind = "ClassDef"
    /\ tree.name = "_x"
    /\ Len(tree.keywords) = 2
    /\ GivesMetaclass(tree)
    /\ Len(tree.body) = 2
    /\ Len(errors) = 2
    /\ IsCallTo(result[1].bases[1], "_getattr_")
    /\ Len(result[1].keywords) = 1

-----------------------------------------------------------------------------
(* C19: the unpack spec.                                                   *)

(* The spec the output carries for the pattern of an assignment or a loop. *)
SpecOf(stmt) ==
    IF stmt.kind = "Assign" THEN Unlocated(stmt.value.args[2])
    ELSE Unlocated(stmt.iter.args[2])

PatternOf(stmt) ==
    IF stmt.kind = "Assign" THEN stmt.targets[1] ELSE stmt.target

IsUnpacking(stmt) ==
    /\ stmt.kind \in {"Assign", "For"}
    /\ stmt.kind = "Assign" => Len(stmt.targets) = 1 /\ HasValue(stmt)
    /\ PatternOf(stmt).kind = "Tuple"

RECURSIVE Depth(_)
Depth(shape) ==
    IF shape.childs = <<>> THEN 1
    ELSE 1 + Depth(shape.childs[
                     CHOOSE k \in 1..Len(shape.childs) :
                        \A j \in 1..Len(shape.childs) :
                            Depth(shape.childs[j].spec)
                              <= Depth(shape.childs[k].spec)].spec)

RECURSIVE Nesting(_)
Nesting(pattern) ==
    LET subs == {i \in 1..Len(pattern.elts) :
                    IsSequencePattern(pattern.elts[i])}
    IN  IF subs = {} THEN 1
        ELSE 1 + Nesting(pattern.elts[
                            CHOOSE k \in subs :
                                \A j \in subs :
                                    Nesting(pattern.elts[j])
                                      <= Nesting(pattern.elts[k])])

(* The spec of the statement is that of its pattern, the kinds being those *)
(* of the sequence patterns.                                               *)
HasSpecOf(stmt, pattern, kinds) ==
    /\ IsSpecDict(SpecOf(stmt))
    /\ ShapeIn(SpecOf(stmt)) = ShapeOf(pattern, kinds)

(* C19: when visit returns an assignment or a for loop whose target is a   *)
(* parenthesized pattern with at most one starred element, the spec in the *)
(* output has the number of elements without a star as its min_len and one *)
(* child for each element that is a sequence pattern, parenthesized or     *)
(* bracketed, and for no other; the index of a child is the position of    *)
(* its element, less the length of the pattern if a star comes before it;  *)
(* the spec of a child is the spec of its element, so that the spec is as  *)
(* deep as the pattern.                                                    *)
C19_UnpackSpec ==
    Returned /\ IsUnpacking(tree) =>
        /\ HasSpecOf(result[1], PatternOf(tree), Bracketed)
        /\ Depth(ShapeIn(SpecOf(result[1]))) = Nesting(PatternOf(tree))

(* The same with the parenthesized patterns as the only patterns.          *)
C19_TupleSpec ==
    Returned /\ IsUnpacking(tree) =>
        HasSpecOf(result[1], PatternOf(tree), ParenthesizedOnly)

(* A starred q and then (r, s), assigned v: min_len 1, and the one child  *)
(* at index -1.                                                            *)
C19_Witness ==
    /\ Returned
    /\ IsUnpacking(tree)
    /\ tree.kind = "Assign"
    /\ ShapeIn(SpecOf(result[1]))
          = [min_len |-> 1,
             childs |-> <<[index |-> -1,
                           spec |-> [min_len |-> 2, childs |-> <<>>]]>>]

-----------------------------------------------------------------------------
(* C20: with statements.                                                   *)

(* The items of a with statement whose as-target is a pattern, in order.   *)
PatternItems(with, kinds) ==
    SelectSeq([i \in 1..Len(with.items) |-> i],
              LAMBDA i : with.items[i].optional_vars.kind \in kinds)

(* block is try: pattern = _unpack_sequence_(tmp, spec, _getiter_)         *)
(* finally: del tmp.                                                       *)
IsGuardedBlock(block, tmp, pattern, kinds) ==
    /\ block.kind = "Try"
    /\ block.handlers = <<>>
    /\ block.orelse = <<>>
    /\ Len(block.body) = 1
    /\ block.body[1].kind = "Assign"
    /\ block.body[1].targets = <<pattern>>
    /\ IsCallTo(block.body[1].value, "_unpack_sequence_")
    /\ IsUnpackOf(block.body[1].value, "_unpack_sequence_",
                  block.body[1].value.args[1], pattern, kinds)
    /\ Unlocated(block.body[1].value.args[1]) = Name(tmp, Load)
    /\ Len(block.finalbody) = 1
    /\ Unlocated(block.finalbody[1]) = Delete(<<Name(tmp, Del)>>)

(* What the text gives for the output out of a with statement.             *)
IsGuardedWith(out, with, kinds) ==
    LET at == PatternItems(with, kinds)
        items == TransformedList(
                     [i \in 1..Len(with.items) |->
                         [with.items[i] EXCEPT !.optional_vars = PyNone]])
    IN  /\ out.kind = "With"
        /\ Len(out.items) = Len(with.items)
        /\ \A i \in 1..Len(with.items) :
              IF with.items[i].optional_vars.kind \in kinds
              THEN /\ out.items[i].optional_vars.kind = "Name"
                   /\ out.items[i].optional_vars.ctx = Store
                   /\ StartsWith(out.items[i].optional_vars.id, "_tmp")
                   /\ out.items[i].context_expr = items[i].context_expr
                   /\ \A j \in 1..Len(with.items) :
                         /\ j # i
                         /\ out.items[j].optional_vars.kind = "Name"
                         => out.items[j].optional_vars.id
                              # out.items[i].optional_vars.id
              ELSE out.items[i] = Transformed(with.items[i])
        /\ Len(out.body) = Len(at) + Len(with.body)
        /\ \A k \in 1..Len(at) :
              IsGuardedBlock(out.body[k], out.items[at[k]].optional_vars.id,
                             Transformed(with.items[at[k]].optional_vars),
                             kinds)
        /\ SubSeq(out.body, Len(at) + 1, Len(out.body))
              = TransformedList(with.body)

(* C20: when the visit of a with statement returns, each item whose        *)
(* as-target is a sequence pattern, parenthesized or bracketed, has a      *)
(* temporary of its own as its target, any other item is as it was, and    *)
(* the body starts with one block try: pattern = _unpack_sequence_(tmp,    *)
(* spec, _getiter_) finally: del tmp for each such item, in the order of   *)
(* the items, each with the temporary and the pattern of its item, before  *)
(* the statements of the input.                                            *)
C20_WithUnpack ==
    Returned /\ tree.kind = "With" =>
        /\ Len(result) = 1
        /\ IsGuardedWith(result[1], tree, Bracketed)

(* The same with the parenthesized patterns as the only patterns.          *)
C20_TupleWithUnpack ==
    Returned /\ tree.kind = "With" =>
        /\ Len(result) = 1
        /\ IsGuardedWith(result[1], tree, ParenthesizedOnly)

(* with cm as (p, q), cm as (p, (r, s)): two blocks, the first for (p, q). *)
C20_Witness ==
    /\ Returned
    /\ tree.kind = "With"
    /\ Len(tree.items) = 2
    /\ tree.items[1].optional_vars.kind = "Tuple"
    /\ tree.items[2].optional_vars.kind = "Tuple"
    /\ tree.items[1].optional_vars # tree.items[2].optional_vars
    /\ Len(result[1].body) = 3
    /\ result[1].body[1].body[1].targets = <<tree.items[1].optional_vars>>
    /\ result[1].items[1].optional_vars.id = "_tmp1"
    /\ result[1].items[2].optional_vars.id = "_tmp0"

-----------------------------------------------------------------------------
(* C21: the locations of the output.                                       *)

HasLocation(n) == Has(n, "lineno") /\ Has(n, "col_offset")

IsLocatable(n) == n.kind \in LocKinds

(* The (line, column) pairs of the nodes of a list.                        *)
Places(nodes) ==
    {<<nodes[i].lineno, nodes[i].col_offset>> :
        i \in {j \in 1..Len(nodes) :
                  IsLocatable(nodes[j]) /\ HasLocation(nodes[j])}}

AllLocated(output) ==
    \A i \in 1..Len(output) : IsLocatable(output[i]) => HasLocation(output[i])

AllPlacedIn(output, places) ==
    \A i \in 1..Len(output) :
        IsLocatable(output[i]) =>
            /\ HasLocation(output[i])
            /\ <<output[i].lineno, output[i].col_offset>> \in places

(* C21: when visit returns, every node of the output that can carry a      *)
(* location has a line and a column, and they are the line and the column  *)
(* of a node of the input.                                                 *)
C21_LocationsCopied == Returned => AllPlacedIn(OutputNodes, Places(Nodes(tree)))

(* Every node of the output that can carry a location has one.             *)
C21_Located == Returned => AllLocated(OutputNodes)

(* The same as C21 for the trees without a class definition and without a  *)
(* collector in a module.                                                  *)
C21_CopiedElsewhere ==
    Returned /\ OfKind(Nodes(tree), {"ClassDef"}) = {}
             /\ ~(tree.kind = "Module" /\ Collectors(result[1].body) > 0)
        => AllPlacedIn(OutputNodes, Places(Nodes(tree)))

(* The module print(1): its collector is at line 0, column 0.              *)
C21_Witness ==
    /\ Returned
    /\ tree = PrintCallModule
    /\ IsCollector(result[1].body[1])
    /\ result[1].body[1].lineno = 0
    /\ result[1].body[1].col_offset = 0

(* A class definition at line 2 of a module is at line 1 in the output,    *)
(* with its body at line 2.                                                *)
C21_WitnessClass ==
    /\ Returned
    /\ tree.kind = "Module"
    /\ Len(tree.body) = 2
    /\ tree.body[2].kind = "ClassDef"
    /\ tree.body[2].lineno = 2
    /\ result[1].body[2].kind = "ClassDef"
    /\ result[1].body[2].lineno = 1
    /\ result[1].body[2].body[1].lineno = 2

-----------------------------------------------------------------------------
(* C22: the denied kinds.                                                  *)

IsDeniedNode(n) == n.kind \in DeniedKinds
DeniedReached == SelectSeq(Reached(tree), IsDeniedNode)

IsDenialText(e) ==
    \E k \in DeniedKinds : EndsWith(e, ": " \o k \o " statements are not allowed.")
MentionsDenied(w) ==
    \E k \in DeniedKinds, l \in LineTexts :
        StartsWith(w, "Line " \o l \o ": " \o k \o " ")

RECURSIVE Hollow(_)
(* The tree without the descendants of its nodes of a denied kind.         *)
Hollow(node) ==
    IF IsDeniedNode(node)
    THEN [f \in DOMAIN node \cap {"kind", "lineno", "col_offset"} |-> node[f]]
    ELSE [f \in DOMAIN node |->
            IF IsListField(node.kind, f)
            THEN [i \in 1..Len(node[f]) |-> Hollow(node[f][i])]
            ELSE IF IsChildField(node.kind, f) /\ node[f] # PyNone
                 THEN Hollow(node[f])
                 ELSE node[f]]

(* What visit leaves behind is what r left behind.                         *)
SameOutcome(r) ==
    /\ result = r.out
    /\ errors = r.st.errors
    /\ warnings = r.st.warnings
    /\ used_names = r.st.used_names
    /\ tmp_idx = r.st.tmp_idx
    /\ print_info = [print_used |-> r.st.print_used,
                     printed_used |-> r.st.printed_used]
    /\ exc = r.st.exc

IsDenied(denied, output) ==
    /\ SelectSeq(errors, IsDenialText)
          = [i \in 1..Len(denied) |-> NotAllowedText(denied[i])]
    /\ \A i \in 1..Len(warnings) : ~MentionsDenied(warnings[i])
    /\ \A i \in 1..Len(output) : ~IsDeniedNode(output[i])
    /\ tree.kind \in DeniedKinds => result = <<>>

(* C22: when visit returns, every node of a denied kind that the           *)
(* dispatcher reached has recorded exactly one error "<Kind> statements    *)
(* are not allowed." and no warning, no node of a denied kind is in the    *)
(* output, and the outcome is that of the tree without the descendants of  *)
(* its denied nodes: nothing below a denied node adds a diagnostic, a used *)
(* name, a temporary or a print flag.                                      *)
C22_DeniedKinds ==
    Returned => /\ IsDenied(DeniedReached, OutputNodes)
                /\ SameOutcome(Visit(Hollow(tree), InitSt))

(* The same independence of the descendants when visit raises.             *)
C22_DescendantsUnvisited == Done => SameOutcome(Visit(Hollow(tree), InitSt))

(* yield a._b alone: one error, no attribute error, no name recorded.      *)
C22_Witness ==
    /\ Returned
    /\ tree.kind = "Yield"
    /\ tree.value.kind = "Attribute"
    /\ result = <<>>
    /\ errors = <<"Line 1: Yield statements are not allowed.">>
    /\ warnings = <<>>
    /\ used_names = {}

(* yield print, then c, in a module: the statement stays without its       *)
(* value, and print sets no flag.                                          *)
C22_WitnessNested ==
    /\ Returned
    /\ tree.kind = "Module"
    /\ Len(DeniedReached) = 1
    /\ tree.body[1].value.kind = "Yield"
    /\ tree.body[1].value.value.id = "print"
    /\ ~Has(result[1].body[1], "value")
    /\ errors = <<"Line 1: Yield statements are not allowed.">>
    /\ warnings = <<>>
    /\ ~print_info.print_used

-----------------------------------------------------------------------------
(* C23: the value of a split assignment.                                   *)

(* The expression an emitted assignment takes its value from: the first    *)
(* argument of the unpack call for a pattern, the value itself if not.     *)
ValueOf(stmt) ==
    IF stmt.targets[1].kind = "Tuple" /\ IsCallTo(stmt.value, "_unpack_sequence_")
    THEN stmt.value.args[1]
    ELSE stmt.value

IsReusedIn(out, output, assign, value) ==
    /\ Len(out) = Len(assign.targets)
    /\ \A j \in 1..Len(out) : out[j].kind = "Assign" /\ ValueOf(out[j]) = value
    /\ Count(Nodes(assign), assign.value) = 1
    /\ Count(output, value) = Len(assign.targets)

(* C23: when visit returns an assignment t1 = ... = tn = expr with a        *)
(* parenthesized pattern among its targets, the output is n assignments,   *)
(* each of which takes its value from the transformed form of expr: the    *)
(* input holds expr once and the output holds its transformed form n       *)
(* times, no temporary being bound to it.                                  *)
C23_ValueReused ==
    Returned /\ tree.kind = "Assign" /\ HasValue(tree)
             /\ (\E i \in 1..Len(tree.targets) : tree.targets[i].kind = "Tuple")
        => /\ IsReusedIn(result, OutputNodes, tree, Transformed(tree.value))
           /\ tmp_idx = 0

(* x = (p, q) = a.b: _getattr_(a, "b") is in both assignments.             *)
C23_Witness ==
    /\ Returned
    /\ tree.kind = "Assign"
    /\ Len(tree.targets) = 2
    /\ tree.targets[1].kind = "Name"
    /\ tree.targets[2].kind = "Tuple"
    /\ tree.value.kind = "Attribute"
    /\ Len(result) = 2
    /\ IsCallTo(result[2].value, "_getattr_")
    /\ result[1].value.args[1] = result[2].value
    /\ CallsTo(OutputNodes, "_getattr_") = 2

====
